---- MODULE Spec2Model ----
(***************************************************************************)
(* A model of agnt: the bolt-backed chat/graph store (client.go), the      *)
(* tool-calling agent (agent.go), the bubbletea event loop (model.go) and  *)
(* the agent worker goroutine started by makeApp.                          *)
(***************************************************************************)
EXTENDS Integers, Sequences, FiniteSets, TLC

VARIABLES
    db,        \* client.db: the bolt database, one bucket per partition
    ret,       \* the outcome of the last repository call made directly on the client
    w,         \* the agent worker goroutine: its position and locals
    ui,        \* the bubbletea event loop running model.Update
    cmds,      \* tea.Cmd goroutines, each blocked delivering its message to the loop
    provider,  \* the model provider: the responses it has given so far
    user       \* the person at the terminal: how many messages they have entered

vars == <<db, ret, w, ui, cmds, provider, user>>

-----------------------------------------------------------------------------
(* Bounds of the model. *)

MaxNodes == 2
MaxEdges == 2
MaxCalls == 2
MaxUserMsgs == 1

-----------------------------------------------------------------------------
(* Keys: itob and the order a bolt cursor walks a bucket in. *)

\* The low three bytes of the 8-byte big-endian key; ids of the model stay below 2^24,
\* so the five high bytes are zero.
itobLittleEndian(i) ==
    <<i % 256, (i \div 256) % 256, (i \div 65536) % 256, 0, 0, 0, 0, 0>>

itob(i) ==
    <<0, 0, 0, 0, 0, (i \div 65536) % 256, (i \div 256) % 256, i % 256>>

\* bytes.Compare on two keys: bolt keeps a bucket sorted by it.
RECURSIVE BytesLess(_, _, _)
BytesLess(a, b, k) ==
    IF k > Len(a) THEN FALSE
    ELSE IF a[k] # b[k] THEN a[k] < b[k]
    ELSE BytesLess(a, b, k + 1)

KeyLess(i, j) == BytesLess(itob(i), itob(j), 1)

\* A bucket: its sequence counter and its key/value pairs (keyed by the decoded id).
EmptyBucket == [seq |-> 0, kv |-> <<>>]

Has(b, k) == k \in DOMAIN b.kv

Put(b, k, v) ==
    [b EXCEPT !.kv = [i \in (DOMAIN b.kv) \cup {k} |-> IF i = k THEN v ELSE b.kv[i]]]

Delete(b, k) ==
    [b EXCEPT !.kv = [i \in (DOMAIN b.kv) \ {k} |-> b.kv[i]]]

NextSequenceReuse(b) == Cardinality(DOMAIN b.kv) + 1

\* Bucket.NextSequence: the counter after the increment, which is the id handed out.
NextSequence(b) == b.seq + 1

\* cursor.First / cursor.Next: the keys of a set in ascending byte order.
RECURSIVE CursorKeys(_)
CursorKeys(S) ==
    IF S = {} THEN <<>>
    ELSE LET k == CHOOSE x \in S : \A y \in S \ {x} : KeyLess(x, y)
         IN  <<k>> \o CursorKeys(S \ {k})

\* A cursor scan of a bucket: its values in key order.
Scan(b) ==
    LET ks == CursorKeys(DOMAIN b.kv)
    IN  [i \in 1..Len(ks) |-> b.kv[ks[i]]]

-----------------------------------------------------------------------------
(* JSON values as encoding/json decodes them into `any`. *)

JAbsent == [t |-> "absent", n |-> 0, s |-> "", o |-> {}]
JNum(n) == [t |-> "float64", n |-> n, s |-> "", o |-> {}]
JInt(n) == [t |-> "int", n |-> n, s |-> "", o |-> {}]
JStr(s) == [t |-> "string", n |-> 0, s |-> s, o |-> {}]
JObj(o) == [t |-> "object", n |-> 0, s |-> "", o |-> o]

\* json.Marshal writes every Go number as a JSON number; json.Unmarshal into `any`
\* reads every JSON number back as a float64.
EncodeScalar(v) == IF v.t \in {"int", "float64"} THEN [v EXCEPT !.t = "number"] ELSE v
DecodeScalar(v) == IF v.t = "number" THEN [v EXCEPT !.t = "float64"] ELSE v
EncodePairs(o) == {<<kv[1], EncodeScalar(kv[2])>> : kv \in o}
DecodePairs(o) == {<<kv[1], DecodeScalar(kv[2])>> : kv \in o}
EncodeValue(v) == IF v.t = "object" THEN [v EXCEPT !.o = EncodePairs(v.o)] ELSE EncodeScalar(v)
DecodeValue(v) == IF v.t = "object" THEN [v EXCEPT !.o = DecodePairs(v.o)] ELSE DecodeScalar(v)

\* A map[string]any of node properties: nil, or a set of key/value pairs.
NilProps == [nil |-> TRUE, kv |-> {}]
MkProps(kv) == [nil |-> FALSE, kv |-> kv]
AdaProps == MkProps({<<"name", JStr("Ada")>>})
EncodeProps(p) == [p EXCEPT !.kv = EncodePairs(p.kv)]
DecodeProps(p) == [p EXCEPT !.kv = DecodePairs(p.kv)]

\* json.Marshal of a result, as the string the tool message stores.
Marshal(v) == ToString(v)

-----------------------------------------------------------------------------
(* Graph repository (client.go). Each operation is one bolt transaction:   *)
(* it yields the database after it, the error it returns ("" for nil) and  *)
(* the value it returns. A transaction that returns an error is rolled     *)
(* back, so the database after it is the database before it.               *)

Result(d, err, val) == [db |-> d, err |-> err, val |-> val]

NoValue == [nil |-> TRUE]

GraphNode(id, type, props) == [ID |-> id, Type |-> type, Props |-> props]

GraphEdge(id, type, from, to) == [ID |-> id, Type |-> type, FromID |-> from, ToID |-> to]

EdgeFilter(type, from, to) == [Type |-> type, FromID |-> from, ToID |-> to]

\* json.Marshal / json.Unmarshal of a GraphNode.
MarshalNode(n) == [n EXCEPT !.Props = EncodeProps(n.Props)]
UnmarshalNode(v) == [v EXCEPT !.Props = DecodeProps(v.Props)]

GetNode(d, id) ==
    IF ~Has(d.nodes, id)
    THEN Result(d, "failed to get node: node with ID " \o ToString(id) \o " not found", NoValue)
    ELSE Result(d, "", UnmarshalNode(d.nodes.kv[id]))

ListNodes(d, nodeType) ==
    LET all == Scan(d.nodes)
        decoded == [i \in 1..Len(all) |-> UnmarshalNode(all[i])]
    IN  Result(d, "", SelectSeq(decoded, LAMBDA n : ~(nodeType # "" /\ n.Type # nodeType)))

CreateNodeDropsProps(d, nodeType, props) ==
    LET id == NextSequence(d.nodes)
        node == GraphNode(id, nodeType, props)
    IN  Result([d EXCEPT !.nodes = Put([d.nodes EXCEPT !.seq = id], id,
                                       MarshalNode(GraphNode(id, nodeType, NilProps)))],
               "", node)

CreateNode(d, nodeType, props) ==
    LET id == NextSequence(d.nodes)
        node == GraphNode(id, nodeType, props)
    IN  Result([d EXCEPT !.nodes = Put([d.nodes EXCEPT !.seq = id], id, MarshalNode(node))], "", node)

\* The cascade of DeleteNode: the edge keys the cursor loop deletes.
RelatedEdges(d, id) ==
    {k \in DOMAIN d.edges.kv : d.edges.kv[k].FromID = id \/ d.edges.kv[k].ToID = id}

DeleteNodeNoCascadeTo(d, id) ==
    LET gone == {k \in DOMAIN d.edges.kv : d.edges.kv[k].FromID = id}
    IN  Result([d EXCEPT !.nodes = Delete(d.nodes, id),
                         !.edges = [d.edges EXCEPT !.kv = [k \in (DOMAIN d.edges.kv) \ gone |-> d.edges.kv[k]]]],
               "", NoValue)

DeleteNodeNoCascadeFrom(d, id) ==
    LET gone == {k \in DOMAIN d.edges.kv : d.edges.kv[k].ToID = id}
    IN  Result([d EXCEPT !.nodes = Delete(d.nodes, id),
                         !.edges = [d.edges EXCEPT !.kv = [k \in (DOMAIN d.edges.kv) \ gone |-> d.edges.kv[k]]]],
               "", NoValue)

DeleteNode(d, id) ==
    LET gone == RelatedEdges(d, id)
    IN  Result([d EXCEPT !.nodes = Delete(d.nodes, id),
                         !.edges = [d.edges EXCEPT !.kv = [k \in (DOMAIN d.edges.kv) \ gone |-> d.edges.kv[k]]]],
               "", NoValue)

GetEdge(d, id) ==
    IF ~Has(d.edges, id)
    THEN Result(d, "failed to get edge: edge with ID " \o ToString(id) \o " not found", NoValue)
    ELSE Result(d, "", d.edges.kv[id])

EdgeMatchesIgnoresTo(filter, edge) ==
    /\ ~(filter.Type # "" /\ edge.Type # filter.Type)
    /\ ~(filter.FromID # 0 /\ edge.FromID # filter.FromID)

EdgeMatches(filter, edge) ==
    /\ ~(filter.Type # "" /\ edge.Type # filter.Type)
    /\ ~(filter.FromID # 0 /\ edge.FromID # filter.FromID)
    /\ ~(filter.ToID # 0 /\ edge.ToID # filter.ToID)

ListEdges(d, filter) ==
    Result(d, "", SelectSeq(Scan(d.edges), LAMBDA e : EdgeMatches(filter, e)))

CreateEdgeCountsFailure(d, edgeType, fromID, toID) ==
    LET id == NextSequence(d.edges)
        edge == GraphEdge(id, edgeType, fromID, toID)
    IN  IF ~Has(d.nodes, fromID)
        THEN Result([d EXCEPT !.edges.seq = id], "failed to create edge: source node not found", NoValue)
        ELSE IF ~Has(d.nodes, toID)
        THEN Result([d EXCEPT !.edges.seq = id], "failed to create edge: target node not found", NoValue)
        ELSE Result([d EXCEPT !.edges = Put([d.edges EXCEPT !.seq = id], id, edge)], "", edge)

CreateEdgeSkipTargetCheck(d, edgeType, fromID, toID) ==
    IF ~Has(d.nodes, fromID)
    THEN Result(d, "failed to create edge: source node not found", NoValue)
    ELSE LET id == NextSequence(d.edges)
             edge == GraphEdge(id, edgeType, fromID, toID)
         IN  Result([d EXCEPT !.edges = Put([d.edges EXCEPT !.seq = id], id, edge)], "", edge)

CreateEdge(d, edgeType, fromID, toID) ==
    IF ~Has(d.nodes, fromID)
    THEN Result(d, "failed to create edge: source node not found", NoValue)
    ELSE IF ~Has(d.nodes, toID)
    THEN Result(d, "failed to create edge: target node not found", NoValue)
    ELSE LET id == NextSequence(d.edges)
             edge == GraphEdge(id, edgeType, fromID, toID)
         IN  Result([d EXCEPT !.edges = Put([d.edges EXCEPT !.seq = id], id, edge)], "", edge)

DeleteEdge(d, id) ==
    Result([d EXCEPT !.edges = Delete(d.edges, id)], "", NoValue)

\* The errors of CreateEdge that report a missing endpoint.
ReferenceError == {"failed to create edge: source node not found",
                   "failed to create edge: target node not found"}

-----------------------------------------------------------------------------
(* Chat repository (client.go). *)

ChatInfo(id, name, state) == [ID |-> id, Name |-> name, State |-> state]

\* The nil and non-nil values of the pointer fields of Message.
NilText == [nil |-> TRUE, Text |-> ""]
TextOf(t) == [nil |-> FALSE, Text |-> t]

\* ToolArgs is a map[string]any; a key the map lacks holds JAbsent.
NoArgs ==
    [id |-> JAbsent, type |-> JAbsent, props |-> JAbsent,
     from_id |-> JAbsent, to_id |-> JAbsent, node_type |-> JAbsent]

NilTool ==
    [nil |-> TRUE, ToolDone |-> FALSE, ToolName |-> "", ToolArgs |-> NoArgs,
     ToolResult |-> "", ToolError |-> ""]

ToolOf(done, name, args, result, error) ==
    [nil |-> FALSE, ToolDone |-> done, ToolName |-> name, ToolArgs |-> args,
     ToolResult |-> result, ToolError |-> error]

Message(cid, mid, mtype, userMsg, agentMsg, toolMsg) ==
    [ChatID |-> cid, MessageID |-> mid, MType |-> mtype,
     UserMsg |-> userMsg, AgentMsg |-> agentMsg, ToolMsg |-> toolMsg]

\* json.Marshal / json.Unmarshal of a Message: the numbers of ToolArgs lose their Go type.
EncodeArgs(a) == [k \in DOMAIN a |-> EncodeValue(a[k])]
DecodeArgs(a) == [k \in DOMAIN a |-> DecodeValue(a[k])]
MarshalMessage(m) == [m EXCEPT !.ToolMsg.ToolArgs = EncodeArgs(m.ToolMsg.ToolArgs)]
UnmarshalMessage(v) == [v EXCEPT !.ToolMsg.ToolArgs = DecodeArgs(v.ToolMsg.ToolArgs)]

\* tx.Bucket(ChatInfo{ID: id}.MessageBucketName()) # nil
HasMessageBucket(d, cid) == cid \in DOMAIN d.msgs

SetMessageBucket(d, cid, b) ==
    [d EXCEPT !.msgs = [c \in (DOMAIN d.msgs) \cup {cid} |-> IF c = cid THEN b ELSE d.msgs[c]]]

CreateChatNoPartition(d, n) ==
    LET id == NextSequence(d.chats)
        ci == ChatInfo(id, n, "idle")
    IN  Result([d EXCEPT !.chats = Put([d.chats EXCEPT !.seq = id], id, ci)], "", ci)

CreateChat(d, n) ==
    LET id == NextSequence(d.chats)
        ci == ChatInfo(id, n, "idle")
    IN  IF HasMessageBucket(d, id)
        THEN Result(d, "failed to read from db: failed to create chat messages bucket", NoValue)
        ELSE Result(SetMessageBucket([d EXCEPT !.chats = Put([d.chats EXCEPT !.seq = id], id, ci)],
                                     id, EmptyBucket),
                    "", ci)

DeleteChatKeepsMessages(d, id) ==
    IF ~HasMessageBucket(d, id)
    THEN Result(d, "failed to delete chat from db: failed to delete chat messages bucket", NoValue)
    ELSE Result([d EXCEPT !.chats = Delete(d.chats, id)], "", NoValue)

DeleteChat(d, id) ==
    IF ~HasMessageBucket(d, id)
    THEN Result(d, "failed to delete chat from db: failed to delete chat messages bucket", NoValue)
    ELSE Result([d EXCEPT !.chats = Delete(d.chats, id),
                          !.msgs = [c \in (DOMAIN d.msgs) \ {id} |-> d.msgs[c]]],
                "", NoValue)

UpdateChatStateUnvalidated(d, chatID, state) ==
    IF ~Has(d.chats, chatID)
    THEN Result(d, "chat not found: " \o ToString(chatID), NoValue)
    ELSE Result([d EXCEPT !.chats = Put(d.chats, chatID, [d.chats.kv[chatID] EXCEPT !.State = state])],
                "", NoValue)

UpdateChatState(d, chatID, state) ==
    IF state # "idle" /\ state # "running"
    THEN Result(d, "invalid state: " \o state \o " (must be 'idle' or 'running')", NoValue)
    ELSE IF ~Has(d.chats, chatID)
    THEN Result(d, "chat not found: " \o ToString(chatID), NoValue)
    ELSE Result([d EXCEPT !.chats = Put(d.chats, chatID, [d.chats.kv[chatID] EXCEPT !.State = state])],
                "", NoValue)

GetChat(d, chatID) ==
    IF ~Has(d.chats, chatID)
    THEN Result(d, "chat not found: " \o ToString(chatID), NoValue)
    ELSE Result(d, "", d.chats.kv[chatID])

ListMessages(d, chatID) ==
    IF ~HasMessageBucket(d, chatID)
    THEN Result(d, "failed to read messages from db: chat messages bucket not found", <<>>)
    ELSE LET all == Scan(d.msgs[chatID])
         IN  Result(d, "", [i \in 1..Len(all) |-> UnmarshalMessage(all[i])])

CreateMessageNoAdvance(d, msg) ==
    IF ~HasMessageBucket(d, msg.ChatID)
    THEN Result(d, "failed to create message: chat messages bucket not found", NoValue)
    ELSE LET bucket == d.msgs[msg.ChatID]
             id == NextSequence(bucket)
             m == [msg EXCEPT !.MessageID = id]
         IN  Result(SetMessageBucket(d, msg.ChatID, Put(bucket, id, MarshalMessage(m))),
                    "", m)

CreateMessageKeepsCallerID(d, msg) ==
    IF ~HasMessageBucket(d, msg.ChatID)
    THEN Result(d, "failed to create message: chat messages bucket not found", NoValue)
    ELSE LET bucket == d.msgs[msg.ChatID]
             id == NextSequence(bucket)
             m == [msg EXCEPT !.MessageID = id]
         IN  Result(SetMessageBucket(d, msg.ChatID,
                                     Put([bucket EXCEPT !.seq = id], id, MarshalMessage(msg))),
                    "", m)

CreateMessage(d, msg) ==
    IF ~HasMessageBucket(d, msg.ChatID)
    THEN Result(d, "failed to create message: chat messages bucket not found", NoValue)
    ELSE LET bucket == d.msgs[msg.ChatID]
             id == NextSequence(bucket)
             m == [msg EXCEPT !.MessageID = id]
         IN  Result(SetMessageBucket(d, msg.ChatID,
                                     Put([bucket EXCEPT !.seq = id], id, MarshalMessage(m))),
                    "", m)

GetMessage(d, cid, mid) ==
    IF ~HasMessageBucket(d, cid)
    THEN Result(d, "failed to get message: chat messages bucket not found", NoValue)
    ELSE IF ~Has(d.msgs[cid], mid)
    THEN Result(d, "failed to get message: message not found", NoValue)
    ELSE Result(d, "", UnmarshalMessage(d.msgs[cid].kv[mid]))

UpdateMessage(d, msg) ==
    IF ~HasMessageBucket(d, msg.ChatID)
    THEN Result(d, "failed to update message: chat messages bucket not found", NoValue)
    ELSE Result(SetMessageBucket(d, msg.ChatID,
                                 Put(d.msgs[msg.ChatID], msg.MessageID, MarshalMessage(msg))),
                "", NoValue)

DeleteMessageDropsChat(d, chatID, messageID) ==
    IF ~HasMessageBucket(d, chatID)
    THEN Result(d, "failed to delete message: chat messages bucket not found", NoValue)
    ELSE Result([SetMessageBucket(d, chatID, Delete(d.msgs[chatID], messageID))
                    EXCEPT !.chats = Delete(d.chats, chatID)], "", NoValue)

DeleteMessage(d, chatID, messageID) ==
    IF ~HasMessageBucket(d, chatID)
    THEN Result(d, "failed to delete message: chat messages bucket not found", NoValue)
    ELSE Result(SetMessageBucket(d, chatID, Delete(d.msgs[chatID], messageID)), "", NoValue)

\* newClient on a fresh directory: the chat, node and edge buckets exist and are empty.
NewClientDB ==
    [chats |-> EmptyBucket, msgs |-> <<>>, nodes |-> EmptyBucket, edges |-> EmptyBucket]

-----------------------------------------------------------------------------
(* The agent (agent.go): history translation, classification, dispatch. *)

\* One anthropic.MessageParam of the request: a text turn, a tool_use turn or a
\* tool_result turn.
Turn(role, block, text, toolUseID, name, args, isError) ==
    [role |-> role, block |-> block, text |-> text, toolUseID |-> toolUseID,
     name |-> name, args |-> args, isError |-> isError]

\* The turns getChatHistory appends for one stored message.
TurnsOf(m) ==
    IF m.MType = "user"
    THEN <<Turn("user", "text", m.UserMsg.Text, "", "", NoArgs, FALSE)>>
    ELSE IF m.MType = "agent"
    THEN <<Turn("assistant", "text", m.AgentMsg.Text, "", "", NoArgs, FALSE)>>
    ELSE LET toolUseID == "tool_" \o ToString(m.MessageID)
             toolUse == Turn("assistant", "tool_use", "", toolUseID,
                             m.ToolMsg.ToolName, EncodeArgs(m.ToolMsg.ToolArgs), FALSE)
         IN  IF m.ToolMsg.ToolError # "" \/ m.ToolMsg.ToolResult # ""
             THEN <<toolUse,
                    Turn("user", "tool_result",
                         IF m.ToolMsg.ToolError # "" THEN m.ToolMsg.ToolError
                                                     ELSE m.ToolMsg.ToolResult,
                         toolUseID, "", NoArgs, m.ToolMsg.ToolError # "")>>
             ELSE <<toolUse>>

RECURSIVE TurnsOfAll(_)
TurnsOfAll(ms) ==
    IF ms = <<>> THEN <<>> ELSE TurnsOf(Head(ms)) \o TurnsOfAll(Tail(ms))

getChatHistory(d, cid) ==
    LET r == ListMessages(d, cid)
    IN  IF r.err # ""
        THEN Result(d, "failed to list messages: " \o r.err, <<>>)
        ELSE IF \E i \in 1..Len(r.val) : r.val[i].MType \notin {"user", "agent", "tool"}
        THEN Result(d, "unknown message type", <<>>)
        ELSE Result(d, "", TurnsOfAll(r.val))

\* A provider response: an error, or content holding text and at most one tool_use
\* block whose Input is a JSON object.
Response(kind, text, name, args) == [kind |-> kind, text |-> text, name |-> name, args |-> args]

NoResponse == Response("none", "", "", NoArgs)

NilMessage == Message(0, 0, "", NilText, NilText, NilTool)

ClassifyDoneTool(cid, resp) ==
    IF resp.kind = "tool"
    THEN Message(cid, 0, "tool", NilText, NilText,
                 ToolOf(TRUE, resp.name, DecodeArgs(resp.args), "", ""))
    ELSE Message(cid, 0, "agent", NilText, TextOf(resp.text), NilTool)

ClassifyKeepText(cid, resp) ==
    IF resp.kind = "tool"
    THEN Message(cid, 0, "tool", NilText, TextOf(resp.text),
                 ToolOf(FALSE, resp.name, DecodeArgs(resp.args), "", ""))
    ELSE Message(cid, 0, "agent", NilText, TextOf(resp.text), NilTool)

ClassifyDropText(cid, resp) ==
    IF resp.kind = "tool"
    THEN Message(cid, 0, "tool", NilText, NilText,
                 ToolOf(FALSE, resp.name, DecodeArgs(resp.args), "", ""))
    ELSE Message(cid, 0, "agent", NilText, TextOf(""), NilTool)

\* generate, lines 132-186: the message built from the completed response.
Classify(cid, resp) ==
    IF resp.kind = "tool"
    THEN Message(cid, 0, "tool", NilText, NilText,
                 ToolOf(FALSE, resp.name, DecodeArgs(resp.args), "", ""))
    ELSE Message(cid, 0, "agent", NilText, TextOf(resp.text), NilTool)

\* getTools: the names declared to the provider.
ToolNames ==
    {"get_node", "list_nodes", "create_node", "delete_node",
     "get_edge", "list_edges", "create_edge", "delete_edge"}

IsFloat(v) == v.t = "float64"
IsString(v) == v.t = "string"

\* json.Marshal of a handler's result.
MarshalList(s) == IF s = <<>> THEN "null" ELSE Marshal(s)
Success == "{\"success\":true}"

\* The outcome of the switch of handleToolCall: `fatal` is the error it returns at
\* once, `err` the repository's error, `result` the encoded result.
Dispatched(d, fatal, err, result) == [db |-> d, fatal |-> fatal, err |-> err, result |-> result]

DispatchResultFatal(r, encoded) == Dispatched(r.db, r.err, "", IF r.err = "" THEN encoded ELSE "")

DispatchResult(r, encoded) == Dispatched(r.db, "", r.err, IF r.err = "" THEN encoded ELSE "")

Dispatch(d, name, a) ==
    CASE name = "get_node" ->
           IF ~IsFloat(a.id) THEN Dispatched(d, "invalid id parameter", "", "")
           ELSE LET r == GetNode(d, a.id.n) IN DispatchResult(r, Marshal(r.val))
      [] name = "list_nodes" ->
           LET r == ListNodes(d, IF IsString(a.node_type) THEN a.node_type.s ELSE "")
           IN  DispatchResult(r, MarshalList(r.val))
      [] name = "create_node" ->
           IF ~IsString(a.type) THEN Dispatched(d, "invalid type parameter", "", "")
           ELSE LET props == IF a.props.t = "object" THEN MkProps(a.props.o) ELSE NilProps
                    r == CreateNode(d, a.type.s, props)
                IN  DispatchResult(r, Marshal(r.val))
      [] name = "delete_node" ->
           IF ~IsFloat(a.id) THEN Dispatched(d, "invalid id parameter", "", "")
           ELSE DispatchResult(DeleteNode(d, a.id.n), Success)
      [] name = "get_edge" ->
           IF ~IsFloat(a.id) THEN Dispatched(d, "invalid id parameter", "", "")
           ELSE LET r == GetEdge(d, a.id.n) IN DispatchResult(r, Marshal(r.val))
      [] name = "list_edges" ->
           LET filter == EdgeFilter(IF IsString(a.type) THEN a.type.s ELSE "",
                                    IF IsFloat(a.from_id) THEN a.from_id.n ELSE 0,
                                    IF IsFloat(a.to_id) THEN a.to_id.n ELSE 0)
               r == ListEdges(d, filter)
           IN  DispatchResult(r, MarshalList(r.val))
      [] name = "create_edge" ->
           IF ~IsString(a.type) THEN Dispatched(d, "invalid type parameter", "", "")
           ELSE IF ~IsFloat(a.from_id) THEN Dispatched(d, "invalid from_id parameter", "", "")
           ELSE IF ~IsFloat(a.to_id) THEN Dispatched(d, "invalid to_id parameter", "", "")
           ELSE LET r == CreateEdge(d, a.type.s, a.from_id.n, a.to_id.n)
                IN  DispatchResult(r, Marshal(r.val))
      [] name = "delete_edge" ->
           IF ~IsFloat(a.id) THEN Dispatched(d, "invalid id parameter", "", "")
           ELSE DispatchResult(DeleteEdge(d, a.id.n), Success)
      [] OTHER -> Dispatched(d, "unknown tool: " \o name, "", "")

ToolOutcomeBothFields(m, t) ==
    IF t.fatal # "" THEN [m EXCEPT !.ToolMsg.ToolDone = TRUE]
    ELSE IF t.err # ""
    THEN [m EXCEPT !.ToolMsg.ToolDone = TRUE, !.ToolMsg.ToolError = t.err,
                   !.ToolMsg.ToolResult = "null"]
    ELSE [m EXCEPT !.ToolMsg.ToolDone = TRUE, !.ToolMsg.ToolResult = t.result]

\* handleToolCall up to its UpdateMessage: the message with ToolDone set and, unless
\* the switch returned at once, ToolError or ToolResult filled in.
ToolOutcome(m, t) ==
    IF t.fatal # "" THEN [m EXCEPT !.ToolMsg.ToolDone = TRUE]
    ELSE IF t.err # "" THEN [m EXCEPT !.ToolMsg.ToolDone = TRUE, !.ToolMsg.ToolError = t.err]
    ELSE [m EXCEPT !.ToolMsg.ToolDone = TRUE, !.ToolMsg.ToolResult = t.result]

-----------------------------------------------------------------------------
(* The state after construction: makeApp has opened the store, `--init` has *)
(* created chat 1, newModel has loaded it, the worker goroutine waits in    *)
(* its select and the command of model.Init is on its way to the loop.      *)

\* model.chatId
chatId == 1

\* What the provider may answer to one request.
PersonArgs == [NoArgs EXCEPT !.type = JStr("person"),
                             !.props = JObj({<<"name", JStr("Ada")>>})]
NumArg(n) == [t |-> "number", n |-> n, s |-> "", o |-> {}]
MissingID == MaxNodes + MaxCalls + 7

Responses ==
    {Response("text", "hi", "", NoArgs),
     Response("error", "", "", NoArgs),
     Response("tool", "", "create_node", PersonArgs),
     Response("tool", "", "get_node", [NoArgs EXCEPT !.id = NumArg(MissingID)]),
     Response("tool", "", "get_node", NoArgs),
     Response("tool", "", "create_node", [NoArgs EXCEPT !.type = NumArg(1)]),
     Response("tool", "", "create_edge",
              [NoArgs EXCEPT !.type = JStr("knows"), !.from_id = JStr("1"), !.to_id = NumArg(1)]),
     Response("tool", "", "create_edge",
              [NoArgs EXCEPT !.type = JStr("knows"), !.from_id = NumArg(1), !.to_id = NumArg(MissingID)])}

NoCall == [op |-> "none", args |-> <<>>, err |-> "", val |-> NoValue]

WorkerIdle ==
    [pc |-> "select", req |-> 0, h |-> <<>>, resp |-> NoResponse, m |-> NilMessage,
     err |-> "", log |-> <<>>]

Init ==
    /\ db = CreateChat(NewClientDB, "test").db
    /\ ret = NoCall
    /\ w = WorkerIdle
    /\ ui = [pc |-> "loop"]
    /\ cmds = [update |-> 1, generate |-> 0, send |-> 0]
    /\ provider = <<>>
    /\ user = 0

\* The process runs until a panic in model.Update ends it or main returns.
Alive == ui.pc \notin {"crashed", "exited"}

\* ctx.Done() is closed: the deferred cancel() of the Action has run.
Cancelled == ui.pc \in {"cancelled", "exited"}

appVars == <<w, ui, cmds, provider, user>>

-----------------------------------------------------------------------------
(* Direct calls of the graph repository. *)

NodeTypes == {"person"}
EdgeTypes == {"knows"}
NodeIDs == 0..(MaxNodes + 1)
EdgeIDs == 0..(MaxEdges + 1)

Call(op, args, r) ==
    /\ db' = r.db
    /\ ret' = [op |-> op, args |-> args, err |-> r.err, val |-> r.val]
    /\ UNCHANGED appVars

\* Properties a caller may pass: none, a string, a number as JSON decoding yields it
\* (the kind create_node passes on), and a Go int.
PropsInputs ==
    {NilProps, AdaProps, MkProps({<<"age", JNum(36)>>}), MkProps({<<"age", JInt(36)>>})}

CallCreateNode ==
    \E t \in NodeTypes, p \in PropsInputs :
        /\ db.nodes.seq < MaxNodes
        /\ Call("CreateNode", <<t, p>>, CreateNode(db, t, p))

CallDeleteNode ==
    \E id \in NodeIDs : Call("DeleteNode", <<id>>, DeleteNode(db, id))

CallCreateEdge ==
    \E t \in EdgeTypes, from \in NodeIDs, to \in NodeIDs :
        /\ db.edges.seq < MaxEdges
        /\ Call("CreateEdge", <<t, from, to>>, CreateEdge(db, t, from, to))

CallDeleteEdge ==
    \E id \in EdgeIDs : Call("DeleteEdge", <<id>>, DeleteEdge(db, id))

CallGetNode ==
    \E id \in NodeIDs : Call("GetNode", <<id>>, GetNode(db, id))

CallGetEdge ==
    \E id \in EdgeIDs : Call("GetEdge", <<id>>, GetEdge(db, id))

NextGraph ==
    \/ CallGetNode
    \/ CallGetEdge
    \/ CallCreateNode
    \/ CallDeleteNode
    \/ CallCreateEdge
    \/ CallDeleteEdge

SpecGraph == Init /\ [][NextGraph]_vars

-----------------------------------------------------------------------------
(* Properties of the graph repository, checked under SpecGraph. *)

EdgeKeys == DOMAIN db.edges.kv
NodeKeys == DOMAIN db.nodes.kv

\* The last direct call deleted a node that had been created.
DeletedACreatedNode ==
    /\ ret.op = "DeleteNode"
    /\ ret.err = ""
    /\ ret.args[1] \in 1..db.nodes.seq

\* C1: in every reachable state every stored edge's FromID and ToID are ids of
\* nodes that are in the node bucket: no reader can observe a dangling edge.
C1_NoDanglingEdge ==
    \A k \in EdgeKeys :
        /\ db.edges.kv[k].FromID \in NodeKeys
        /\ db.edges.kv[k].ToID \in NodeKeys

\* C1 witness: a created node has been deleted after both edges of the model were
\* created, and an edge between surviving nodes is still stored.
C1_Witness ==
    /\ DeletedACreatedNode
    /\ db.edges.seq = MaxEdges
    /\ EdgeKeys # {}
    /\ C1_NoDanglingEdge

\* C2 as stated: after DeleteNode(id) commits, for every id, ListEdges({from_id: id})
\* and ListEdges({to_id: id}) both return empty.
C2_Original ==
    (ret.op = "DeleteNode" /\ ret.err = "") =>
        /\ ListEdges(db, EdgeFilter("", ret.args[1], 0)).val = <<>>
        /\ ListEdges(db, EdgeFilter("", 0, ret.args[1])).val = <<>>

\* C2 amended: after DeleteNode(id) commits, for every id other than 0 (the value
\* EdgeFilter reads as "unset"), ListEdges({from_id: id}) and ListEdges({to_id: id})
\* both succeed and return empty.
C2_DeletedNodeHasNoEdges ==
    (ret.op = "DeleteNode" /\ ret.err = "" /\ ret.args[1] # 0) =>
        /\ ListEdges(db, EdgeFilter("", ret.args[1], 0)) = Result(db, "", <<>>)
        /\ ListEdges(db, EdgeFilter("", 0, ret.args[1])) = Result(db, "", <<>>)

\* C2 witness: DeleteNode of a created node has committed while another edge is
\* stored, and listing by the deleted id returns nothing.
C2_Witness ==
    /\ DeletedACreatedNode
    /\ EdgeKeys # {}
    /\ ListEdges(db, EdgeFilter("", ret.args[1], 0)).val = <<>>
    /\ ListEdges(db, EdgeFilter("", 0, ret.args[1])).val = <<>>

\* A step that is a direct CreateEdge call naming a node that is not stored.
CreateEdgeOnMissingNode ==
    /\ <<db, ret>>' # <<db, ret>>
    /\ ret'.op = "CreateEdge"
    /\ (ret'.args[2] \notin NodeKeys \/ ret'.args[3] \notin NodeKeys)

\* C3: CreateEdge(type, from, to) with from or to not naming a stored node fails with
\* a ReferenceError and persists nothing: the edge bucket and its sequence counter
\* (and the rest of the store) are as before the call.
C3_CreateEdgeMissingEndpoint ==
    [][CreateEdgeOnMissingNode => (ret'.err \in ReferenceError /\ db' = db)]_vars

\* C3 witness: a CreateEdge call has failed on a missing endpoint while the other
\* endpoint exists and an earlier edge is stored.
C3_Witness ==
    /\ ret.op = "CreateEdge"
    /\ ret.err \in ReferenceError
    /\ (ret.args[2] \in NodeKeys \/ ret.args[3] \in NodeKeys)
    /\ EdgeKeys # {}

-----------------------------------------------------------------------------
(* The application: the event loop (model.Update) and the agent worker.    *)
(* agent.gc and the program's message channel are unbuffered: a send       *)
(* completes only in the step in which the other side receives.            *)

Last(s) == s[Len(s)]

\* The store writes the worker has made in the round in progress.
Logged(op, id) == [op |-> op, id |-> id]

\* model.Update on UpdateChatMsg: reload the history; a last message of kind tool
\* batches a GenerateMsg.
OnUpdateChatMsg(c) ==
    LET r == ListMessages(db, chatId)
    IN  IF r.err # "" THEN [pc |-> "crashed", cmds |-> c]
        ELSE IF Len(r.val) > 0 /\ Last(r.val).MType = "tool"
        THEN [pc |-> "loop", cmds |-> [c EXCEPT !.generate = @ + 1]]
        ELSE [pc |-> "loop", cmds |-> c]

\* model.Update on GenerateResponse: panic on an error, else return an UpdateChatMsg.
OnGenerateResponse(c, err) ==
    IF err # "" THEN [pc |-> "crashed", cmds |-> c]
    ELSE [pc |-> "loop", cmds |-> [c EXCEPT !.update = @ + 1]]

\* The person types a message and presses enter: a SendMessageMsg is on its way.
UserEnter ==
    /\ Alive
    /\ ~Cancelled
    /\ user < MaxUserMsgs
    /\ user' = user + 1
    /\ cmds' = [cmds EXCEPT !.send = @ + 1]
    /\ UNCHANGED <<db, ret, w, ui, provider>>

\* model.Update on SendMessageMsg, up to its GetChat: ignore the message while the
\* chat is stored as running.
UISendMessage ==
    /\ ui.pc = "loop"
    /\ cmds.send > 0
    /\ cmds' = [cmds EXCEPT !.send = @ - 1]
    /\ LET chat == GetChat(db, chatId)
       IN  ui' = [ui EXCEPT !.pc = IF chat.err # "" THEN "crashed"
                                   ELSE IF chat.val.State = "running" THEN "loop"
                                   ELSE "send_create"]
    /\ UNCHANGED <<db, ret, w, provider, user>>

\* model.Update on SendMessageMsg, from its CreateMessage on.
UIStoreUserMessage ==
    /\ ui.pc = "send_create"
    /\ LET r == CreateMessage(db, Message(chatId, 0, "user", TextOf("hello"), NilText, NilTool))
       IN  IF r.err # ""
           THEN /\ ui' = [ui EXCEPT !.pc = "crashed"]
                /\ UNCHANGED <<db, cmds>>
           ELSE /\ db' = r.db
                /\ ui' = [ui EXCEPT !.pc = "loop"]
                /\ cmds' = [cmds EXCEPT !.update = @ + 1, !.generate = @ + 1]
    /\ UNCHANGED <<ret, w, provider, user>>

\* model.Update on an UpdateChatMsg that a command delivered.
UIUpdateChat ==
    /\ ui.pc = "loop"
    /\ cmds.update > 0
    /\ LET o == OnUpdateChatMsg([cmds EXCEPT !.update = @ - 1])
       IN  /\ ui' = [ui EXCEPT !.pc = o.pc]
           /\ cmds' = o.cmds
    /\ UNCHANGED <<db, ret, w, provider, user>>

\* model.Update on GenerateMsg: the loop starts the send on agent.gc and stays in it
\* until the worker receives.
UIGenerate ==
    /\ ui.pc = "loop"
    /\ cmds.generate > 0
    /\ cmds' = [cmds EXCEPT !.generate = @ - 1]
    /\ ui' = [ui EXCEPT !.pc = "gc_send"]
    /\ UNCHANGED <<db, ret, w, provider, user>>

ReadyAnywhere(pc) == pc # "set_running"

\* The worker is in its select, ready to receive from agent.gc.
WorkerReady(pc) == pc = "select"

\* `case req := <-agent.gc`: the send of the loop and the receive of the worker.
WorkerReceive ==
    /\ ui.pc = "gc_send"
    /\ WorkerReady(w.pc)
    /\ ui' = [ui EXCEPT !.pc = "loop"]
    /\ w' = [WorkerIdle EXCEPT !.pc = "set_running", !.req = chatId]
    /\ UNCHANGED <<db, ret, cmds, provider, user>>

\* client.UpdateChatState(req.ChatID, "running"); on an error the worker goes on to
\* send the response and continues.
WorkerSetRunning ==
    /\ Alive
    /\ w.pc = "set_running"
    /\ LET r == UpdateChatState(db, w.req, "running")
       IN  /\ db' = r.db
           /\ w' = [w EXCEPT !.pc = IF r.err # "" THEN "send_resp" ELSE "history",
                             !.err = r.err]
    /\ UNCHANGED <<ret, ui, cmds, provider, user>>

\* generate, lines 112-127: read the history and issue the request.
WorkerHistory ==
    /\ Alive
    /\ w.pc = "history"
    /\ LET r == getChatHistory(db, w.req)
       IN  w' = IF r.err # ""
                THEN [w EXCEPT !.pc = "set_idle", !.err = "failed to get messages: " \o r.err]
                ELSE [w EXCEPT !.pc = "await", !.h = r.val]
    /\ UNCHANGED <<db, ret, ui, cmds, provider, user>>

ProviderOutcomeIgnoreError(wk, resp) ==
    [wk EXCEPT !.pc = "create", !.resp = resp]

\* generate, lines 127-130: an error of the provider call ends generate at once.
ProviderOutcome(wk, resp) ==
    IF resp.kind = "error"
    THEN [wk EXCEPT !.pc = "set_idle", !.err = "failed to generate response"]
    ELSE [wk EXCEPT !.pc = "create", !.resp = resp]

ProviderRespondInsideUpdate ==
    /\ Alive
    /\ w.pc = "await"
    /\ Len(provider) < MaxCalls
    /\ \E resp \in Responses :
        /\ provider' = Append(provider, resp)
        /\ LET o == ProviderOutcome(w, resp)
               r == CreateMessage(db, Classify(w.req, resp))
           IN  IF o.pc # "create" \/ r.err # ""
               THEN w' = o /\ UNCHANGED db
               ELSE /\ db' = r.db
                    /\ w' = [o EXCEPT !.pc = IF r.val.MType = "tool" THEN "tool" ELSE "onupdate",
                                      !.m = r.val,
                                      !.log = Append(@, Logged("CreateMessage", r.val.MessageID))]
    /\ UNCHANGED <<ret, ui, cmds, user>>

\* a.ac.Messages.New returns: an error, or the completed response.
ProviderRespond ==
    /\ Alive
    /\ w.pc = "await"
    /\ Len(provider) < MaxCalls
    /\ \E resp \in Responses :
        /\ provider' = Append(provider, resp)
        /\ w' = ProviderOutcome(w, resp)
    /\ UNCHANGED <<db, ret, ui, cmds, user>>

\* generate, lines 132-193: classify the response and create its message.
WorkerCreateMessage ==
    /\ Alive
    /\ w.pc = "create"
    /\ LET r == CreateMessage(db, Classify(w.req, w.resp))
       IN  IF r.err # ""
           THEN /\ w' = [w EXCEPT !.pc = "set_idle", !.err = "failed to create message: " \o r.err]
                /\ UNCHANGED db
           ELSE /\ db' = r.db
                /\ w' = [w EXCEPT !.pc = IF r.val.MType = "tool" THEN "tool" ELSE "onupdate",
                                  !.m = r.val,
                                  !.log = Append(@, Logged("CreateMessage", r.val.MessageID))]
    /\ UNCHANGED <<ret, ui, cmds, provider, user>>

\* handleToolCall up to its UpdateMessage: the switch and the repository call.
WorkerDispatchTool ==
    /\ Alive
    /\ w.pc = "tool"
    /\ LET t == Dispatch(db, w.m.ToolMsg.ToolName, w.m.ToolMsg.ToolArgs)
       IN  /\ db' = t.db
           /\ w' = [w EXCEPT !.pc = IF t.fatal # "" THEN "onupdate" ELSE "tool_update",
                             !.m = ToolOutcome(w.m, t),
                             !.err = IF t.fatal # "" THEN "failed to handle tool call: " \o t.fatal
                                     ELSE "",
                             !.log = IF t.db # db THEN Append(@, Logged(w.m.ToolMsg.ToolName, 0))
                                     ELSE @]
    /\ UNCHANGED <<ret, ui, cmds, provider, user>>

WorkerUpdateToolMessageRedispatch ==
    /\ Alive
    /\ w.pc = "tool_update"
    /\ LET r == UpdateMessage(db, w.m)
       IN  /\ db' = r.db
           /\ w' = [w EXCEPT !.pc = "tool",
                             !.err = IF r.err # "" THEN "failed to handle tool call: " \o r.err
                                     ELSE "",
                             !.log = IF r.err = "" THEN Append(@, Logged("UpdateMessage", w.m.MessageID))
                                     ELSE @]
    /\ UNCHANGED <<ret, ui, cmds, provider, user>>

\* handleToolCall: `return a.c.UpdateMessage(*m)`.
WorkerUpdateToolMessage ==
    /\ Alive
    /\ w.pc = "tool_update"
    /\ LET r == UpdateMessage(db, w.m)
       IN  /\ db' = r.db
           /\ w' = [w EXCEPT !.pc = "onupdate",
                             !.err = IF r.err # "" THEN "failed to handle tool call: " \o r.err
                                     ELSE "",
                             !.log = IF r.err = "" THEN Append(@, Logged("UpdateMessage", w.m.MessageID))
                                     ELSE @]
    /\ UNCHANGED <<ret, ui, cmds, provider, user>>

\* The deferred onupdate of generate: p.Send(UpdateChatMsg{}), received by the loop,
\* which runs model.Update on it.
WorkerSendUpdate ==
    /\ w.pc = "onupdate"
    /\ ui.pc = "loop"
    /\ LET o == OnUpdateChatMsg(cmds)
       IN  /\ ui' = [ui EXCEPT !.pc = o.pc]
           /\ cmds' = o.cmds
    /\ w' = [w EXCEPT !.pc = "set_idle"]
    /\ UNCHANGED <<db, ret, provider, user>>

SetIdleUnlessFailed(d, cid, err) ==
    IF err # "" THEN Result(d, "", NoValue) ELSE UpdateChatState(d, cid, "idle")

\* The worker after generate returned `err`: client.UpdateChatState(req.ChatID, "idle").
SetIdle(d, cid, err) == UpdateChatState(d, cid, "idle")

WorkerSetIdle ==
    /\ Alive
    /\ w.pc = "set_idle"
    /\ LET r == SetIdle(db, w.req, w.err)
       IN  /\ db' = r.db
           /\ w' = [w EXCEPT !.pc = "send_resp",
                             !.err = IF w.err = "" THEN r.err ELSE w.err]
    /\ UNCHANGED <<ret, ui, cmds, provider, user>>

\* p.Send(GenerateResponse{ChatID, Error: err}), received by the loop, which runs
\* model.Update on it; the worker returns to its select.
WorkerSendResponse ==
    /\ w.pc = "send_resp"
    /\ ui.pc = "loop"
    /\ LET o == OnGenerateResponse(cmds, w.err)
       IN  /\ ui' = [ui EXCEPT !.pc = o.pc]
           /\ cmds' = o.cmds
    /\ w' = [w EXCEPT !.pc = "select"]
    /\ UNCHANGED <<db, ret, provider, user>>

\* ctrl+c: model.Update returns tea.Quit, the loop ends, p.Run returns and the deferred
\* cancel() of the Action runs.
UIQuit ==
    /\ ui.pc = "loop"
    /\ ui' = [ui EXCEPT !.pc = "cancelled"]
    /\ UNCHANGED <<db, ret, w, cmds, provider, user>>

\* The Action returns, app.Run returns and main returns: the process ends, wherever
\* the worker goroutine is.
ProcessExit ==
    /\ ui.pc = "cancelled"
    /\ ui' = [ui EXCEPT !.pc = "exited"]
    /\ UNCHANGED <<db, ret, w, cmds, provider, user>>

\* `case <-ctx.Done()`: p.Quit(), client.Close(), return.
WorkerCancelled ==
    /\ ui.pc = "cancelled"
    /\ w.pc = "select"
    /\ w' = [w EXCEPT !.pc = "returned"]
    /\ UNCHANGED <<db, ret, ui, cmds, provider, user>>

\* p.Send once the program has finished: it returns without delivering the message.
WorkerSendDropped ==
    /\ ui.pc = "cancelled"
    /\ w.pc \in {"onupdate", "send_resp"}
    /\ w' = [w EXCEPT !.pc = IF w.pc = "onupdate" THEN "set_idle" ELSE "select"]
    /\ UNCHANGED <<db, ret, ui, cmds, provider, user>>

\* The steps of the program itself, the person at the terminal left out.
ProgramNext ==
    \/ UISendMessage
    \/ UIStoreUserMessage
    \/ UIUpdateChat
    \/ UIGenerate
    \/ WorkerReceive
    \/ WorkerSetRunning
    \/ WorkerHistory
    \/ ProviderRespond
    \/ WorkerCreateMessage
    \/ WorkerDispatchTool
    \/ WorkerUpdateToolMessage
    \/ WorkerSendUpdate
    \/ WorkerSetIdle
    \/ WorkerSendResponse
    \/ ProcessExit
    \/ WorkerCancelled
    \/ WorkerSendDropped

Next ==
    \/ UserEnter
    \/ UIQuit
    \/ ProgramNext

Spec == Init /\ [][Next]_vars

\* The scheduler runs every goroutine that can take a step; the person may stay idle.
FairSpec == Spec /\ WF_vars(ProgramNext)


-----------------------------------------------------------------------------
(* Properties of the application, checked under Spec. *)

\* The positions of the worker inside agent.generate and up to the write of idle.
RoundPcs == {"history", "await", "create", "tool", "tool_update", "onupdate", "set_idle"}

\* generate has returned to the worker.
GenerateReturned == w.pc \in {"set_idle", "send_resp"}

ChatKeys == DOMAIN db.chats.kv

Running == {c \in ChatKeys : db.chats.kv[c].State = "running"}

\* The message of the round as the store holds it.
StoredMessage == GetMessage(db, w.req, w.m.MessageID).val

\* C4: once the worker has finished a round (it is about to send the completion
\* notification, or is back in its select), on every exit path, no chat is stored
\* as running.
C4_IdleAfterRound ==
    w.pc \in {"send_resp", "select"} => Running = {}

\* C4 witness: a round has ended on an error exit (a failed tool dispatch) and the
\* worker is about to send the completion notification with the chat stored idle.
C4_Witness ==
    /\ w.pc = "send_resp"
    /\ w.err # ""
    /\ w.m.MType = "tool"
    /\ db.chats.kv[w.req].State = "idle"

\* C5 as stated: submitting a generation request never waits for the worker: whenever
\* the event loop is in its send on agent.gc the worker is in its select, ready to
\* receive.
C5_SubmitNeverWaits ==
    ui.pc = "gc_send" => WorkerReady(w.pc)

\* C6: rounds are strictly serialized: a chat is stored as running only while the
\* worker is inside the one round it is executing, for that chat, so that at most
\* one round is in progress however many requests have been submitted.
C6_RoundsSerialized ==
    /\ Cardinality(Running) <= 1
    /\ \A c \in Running : w.pc \in RoundPcs /\ w.req = c

\* C6 witness: a second request is being submitted while a round is in progress.
C6_Witness ==
    /\ ui.pc = "gc_send"
    /\ w.pc \in RoundPcs
    /\ Running = {chatId}

RequiredArgsWithProps(name) ==
    CASE name \in {"get_node", "delete_node", "get_edge", "delete_edge"} -> {<<"id", "float64">>}
      [] name = "create_node" -> {<<"type", "string">>, <<"props", "object">>}
      [] name = "create_edge" -> {<<"type", "string">>, <<"from_id", "float64">>, <<"to_id", "float64">>}
      [] OTHER -> {}

\* getTools: the arguments each schema lists as required, with their declared type.
RequiredArgs(name) ==
    CASE name \in {"get_node", "delete_node", "get_edge", "delete_edge"} -> {<<"id", "float64">>}
      [] name = "create_node" -> {<<"type", "string">>}
      [] name = "create_edge" -> {<<"type", "string">>, <<"from_id", "float64">>, <<"to_id", "float64">>}
      [] OTHER -> {}

\* A tool call of a declared tool with a required argument missing or of the wrong type.
BadArguments(m) ==
    /\ m.MType = "tool"
    /\ m.ToolMsg.ToolName \in ToolNames
    /\ \E r \in RequiredArgs(m.ToolMsg.ToolName) : m.ToolMsg.ToolArgs[r[1]].t # r[2]

\* C7 as stated: a tool call with a missing or wrongly typed required argument is
\* non-fatal: once generate has returned, the stored tool message has done=true and
\* its tool_error set, and generate's error (the error of the completion
\* notification) is nil.
C7_BadArgumentsAbsorbed ==
    (GenerateReturned /\ BadArguments(w.m)) =>
        /\ StoredMessage.ToolMsg.ToolDone
        /\ StoredMessage.ToolMsg.ToolError # ""
        /\ w.err = ""

\* A tool call with well-typed arguments that names a record the store does not hold.
MissingRecordCall(m) ==
    /\ m.MType = "tool"
    /\ ~BadArguments(m)
    /\ LET a == m.ToolMsg.ToolArgs
       IN  \/ m.ToolMsg.ToolName = "get_node" /\ a.id.n \notin NodeKeys
           \/ m.ToolMsg.ToolName = "get_edge" /\ a.id.n \notin EdgeKeys
           \/ m.ToolMsg.ToolName = "create_edge"
                /\ (a.from_id.n \notin NodeKeys \/ a.to_id.n \notin NodeKeys)

\* The error descriptions of the repository for a record that is not there.
IsNotFound(e) ==
    \/ e \in ReferenceError
    \/ \E id \in {MissingID} \cup 0..(MaxNodes + MaxEdges + 1) :
           e \in {GetNode(NewClientDB, id).err, GetEdge(NewClientDB, id).err}

\* C8: when the repository call of a tool handler fails, then once generate has
\* returned the stored tool message has done=true, tool_error set to the error
\* description and tool_result empty, and generate's error (the error of the
\* completion notification) is nil.
C8_RepositoryErrorAbsorbed ==
    (GenerateReturned /\ MissingRecordCall(w.m)) =>
        /\ StoredMessage = w.m
        /\ StoredMessage.ToolMsg.ToolDone
        /\ IsNotFound(StoredMessage.ToolMsg.ToolError)
        /\ StoredMessage.ToolMsg.ToolResult = ""
        /\ w.err = ""

\* C8 witness: get_node on an id with no record has been dispatched and the worker is
\* about to send a completion notification without an error.
C8_Witness ==
    /\ w.pc = "send_resp"
    /\ MissingRecordCall(w.m)
    /\ w.m.ToolMsg.ToolName = "get_node"
    /\ StoredMessage.ToolMsg.ToolError = GetNode(db, MissingID).err
    /\ w.err = ""

\* No step of the program is enabled: the loop has nothing to receive or is blocked in
\* its send, and the worker is in its select or blocked in a send to the loop.
Quiescent ==
    \/ ui.pc = "crashed"
    \/ /\ w.pc \in {"select", "onupdate", "send_resp"}
       /\ ui.pc \in {"loop", "gc_send"}
       /\ ui.pc = "loop" =>
            /\ cmds = [update |-> 0, generate |-> 0, send |-> 0]
            /\ w.pc = "select"
       /\ ui.pc = "gc_send" => w.pc # "select"

Messages == ListMessages(db, chatId).val

\* The chat held one user message, the provider's first response asked for
\* create_node(person, {name: Ada}) and its second was plain text.
ScenarioB ==
    /\ Len(provider) >= 2
    /\ provider[1] = Response("tool", "", "create_node", PersonArgs)
    /\ provider[2].kind = "text"
    /\ Len(Messages) >= 1
    /\ Messages[1].MType = "user"
    /\ Cardinality({i \in 1..Len(Messages) : Messages[i].MType = "user"}) = 1

\* C9 as stated: in scenario B, once the system quiesces, exactly two new messages
\* exist, the completed create_node tool message and then one agent message, exactly
\* one node was created, and the chat state is idle.
C9_ScenarioBOutcome ==
    (Quiescent /\ ScenarioB) =>
        /\ Len(Messages) = 3
        /\ Messages[2] = Message(chatId, 2, "tool", NilText, NilText,
                                 ToolOf(TRUE, "create_node", DecodeArgs(PersonArgs),
                                        Marshal(GraphNode(1, "person", AdaProps)), ""))
        /\ Messages[3] = Message(chatId, 3, "agent", NilText, TextOf(provider[2].text), NilTool)
        /\ NodeKeys = {1}
        /\ db.nodes.seq = 1
        /\ db.chats.kv[chatId].State = "idle"

\* The round in progress read a history that ends with a user message and the
\* provider answered it with plain text.
PlainTextRound ==
    /\ w.resp.kind = "text"
    /\ Len(w.h) > 0
    /\ Last(w.h).role = "user"
    /\ Last(w.h).block = "text"

\* C10: a round on a chat whose last message is a user message, answered with plain
\* text, persists exactly one new message, of kind agent and carrying exactly the
\* returned text; it writes no other message and no graph record, and the chat state
\* ends idle.
C10_PlainTextRound ==
    (w.pc = "send_resp" /\ PlainTextRound) =>
        /\ w.err = ""
        /\ Len(w.log) = 1
        /\ w.log[1] = Logged("CreateMessage", w.m.MessageID)
        /\ StoredMessage =
               Message(w.req, w.m.MessageID, "agent", NilText, TextOf(w.resp.text), NilTool)
        /\ db.chats.kv[w.req].State = "idle"

\* C10 witness: such a round has ended, with the agent message stored after the user
\* message.
C10_Witness ==
    /\ w.pc = "send_resp"
    /\ PlainTextRound
    /\ Len(Messages) = 2
    /\ Messages[2].MType = "agent"
    /\ Messages[2].AgentMsg.Text = "hi"

-----------------------------------------------------------------------------
(* Chained tool use and shutdown, checked under Spec and FairSpec. *)

\* handleToolCall has stored the outcome of a tool call and generate is returning.
DispatchedTool ==
    /\ w.pc = "onupdate"
    /\ w.m.MType = "tool"
    /\ w.err = ""

\* No generation request is on its way to the worker.
NoRequestPending == cmds.generate = 0 /\ ui.pc # "gc_send"

\* The chat ends with an agent message, is stored idle and nothing is pending.
TerminalAgent ==
    /\ Len(Messages) > 0
    /\ Last(Messages).MType = "agent"
    /\ db.chats.kv[chatId].State = "idle"
    /\ NoRequestPending

\* The chain cannot go on for a reason the claim leaves out: the process has ended
\* (a panic on a provider or dispatch error, or the person quitting), or the provider
\* is asked for more answers than it gives here.
ChainCutShort ==
    \/ ui.pc \in {"crashed", "cancelled", "exited"}
    \/ w.pc = "await" /\ Len(provider) >= MaxCalls

\* C11 as stated: after a tool message has been dispatched the chain goes on without
\* user input until the chat ends with an agent message, stored idle, with no
\* generation request pending.
C11_ChainedToolUse ==
    DispatchedTool ~> (TerminalAgent \/ ChainCutShort)

\* C12 as stated: a shutdown never leaves a chat stored as running: once the process
\* has exited, or the worker has returned, no chat is stored as running.
C12_ShutdownLeavesIdle ==
    (ui.pc = "exited" \/ w.pc = "returned") => Running = {}

\* The worker begins a round: it is about to write running, or about to call generate.
RoundStart == w.pc \in {"set_running", "history"}

\* C13 as stated: once the cancellation signal has fired the worker starts no round:
\* it makes no UpdateChatState(running) call and no generate call.
C13_NoRoundAfterCancel ==
    [][(Cancelled /\ RoundStart) => w' = w]_vars

\* The provider call of the round that has just ended returned an error.
ProviderFailed ==
    /\ w.pc = "send_resp"
    /\ provider # <<>>
    /\ Last(provider).kind = "error"

\* The history the round read is still what the store holds, up to what was added
\* after it.
HistoryIntact ==
    LET now == getChatHistory(db, w.req)
    IN  /\ now.err = ""
        /\ Len(now.val) >= Len(w.h)
        /\ SubSeq(now.val, 1, Len(w.h)) = w.h

-----------------------------------------------------------------------------
(* The stored messages of the application, checked under Spec. *)

\* The stored tool messages that are marked done.
DoneTools ==
    {i \in 1..Len(Messages) : Messages[i].MType = "tool" /\ Messages[i].ToolMsg.ToolDone}

\* C15: every stored tool message with done=true has exactly one of tool_result and
\* tool_error non-empty.
C15_DoneToolHasOneOutcome ==
    \A i \in DoneTools :
        (Messages[i].ToolMsg.ToolResult # "") # (Messages[i].ToolMsg.ToolError # "")

\* C15 witness: the chat holds a done tool message with a result and another with an
\* error.
C15_Witness ==
    /\ \E i \in DoneTools : Messages[i].ToolMsg.ToolResult # ""
    /\ \E i \in DoneTools : Messages[i].ToolMsg.ToolError # ""

\* The payload fields of a message that are set (non-nil).
Payloads(m) ==
    {f \in {"UserMsg", "AgentMsg", "ToolMsg"} : ~m[f].nil}

\* The payload field that goes with a kind.
PayloadOf(kind) ==
    CASE kind = "user" -> {"UserMsg"}
      [] kind = "agent" -> {"AgentMsg"}
      [] kind = "tool" -> {"ToolMsg"}
      [] OTHER -> {}

\* C16: every stored message has one of the three kinds and exactly the payload
\* field of its kind set, the other two being absent.
C16_PayloadMatchesKind ==
    \A i \in 1..Len(Messages) :
        /\ Messages[i].MType \in {"user", "agent", "tool"}
        /\ Payloads(Messages[i]) = PayloadOf(Messages[i].MType)

\* C16 witness: the chat holds a message of each kind.
C16_Witness ==
    {Messages[i].MType : i \in 1..Len(Messages)} = {"user", "agent", "tool"}

-----------------------------------------------------------------------------
(* Direct calls of the whole store (client.go), on a store that may already *)
(* have handed out node and edge ids in an earlier run.                     *)

MaxStoreCreates == 2

\* The node and edge sequence counters the store starts with: a fresh store, or one
\* whose first 254 ids were assigned and deleted before.
SeqBases == {0, 254}

InitStore ==
    /\ \E base \in SeqBases :
          db = [CreateChat(NewClientDB, "test").db EXCEPT !.nodes.seq = base, !.edges.seq = base]
    /\ ret = NoCall
    /\ w = WorkerIdle
    /\ ui = [pc |-> "loop"]
    /\ cmds = [update |-> 1, generate |-> 0, send |-> 0]
    /\ provider = <<>>
    /\ user = 0

\* The ids a counter has handed out since the store was opened.
SinceBase(seq) == seq - (CHOOSE b \in SeqBases : b <= seq /\ \A c \in SeqBases : c <= seq => c <= b)

RECURSIVE SumSeq(_, _)
SumSeq(f, S) ==
    IF S = {} THEN 0
    ELSE LET c == CHOOSE x \in S : TRUE IN f[c].seq + SumSeq(f, S \ {c})

\* The records created by the calls made so far (those of deleted chats left out).
StoreCreates(d) ==
    (d.chats.seq - 1) + SumSeq(d.msgs, DOMAIN d.msgs)
        + SinceBase(d.nodes.seq) + SinceBase(d.edges.seq)

\* The ids worth passing for a bucket: those of its records and the next one it will
\* assign, which has no record.
IDsOf(b) == {b.seq + 1} \cup DOMAIN b.kv

MessageIDsOf(d, cid) == IF HasMessageBucket(d, cid) THEN IDsOf(d.msgs[cid]) ELSE {1}

ChatStates == {"idle", "running", "done"}

\* Messages a caller may pass: a user message, a tool message whose argument is a
\* float64 and which names an id of its own, and a tool message whose argument is an int.
MessageInputs(cid) ==
    {Message(cid, 0, "user", TextOf("hello"), NilText, NilTool),
     Message(cid, 7, "tool", NilText, NilText,
             ToolOf(FALSE, "get_node", [NoArgs EXCEPT !.id = JNum(1)], "", "")),
     Message(cid, 0, "tool", NilText, NilText,
             ToolOf(FALSE, "get_node", [NoArgs EXCEPT !.id = JInt(1)], "", ""))}

StoreCreateChat ==
    /\ StoreCreates(db) < MaxStoreCreates
    /\ Call("CreateChat", <<"more">>, CreateChat(db, "more"))

StoreDeleteChat ==
    \E id \in IDsOf(db.chats) : Call("DeleteChat", <<id>>, DeleteChat(db, id))

StoreUpdateChatState ==
    \E id \in IDsOf(db.chats), state \in ChatStates :
        Call("UpdateChatState", <<id, state>>, UpdateChatState(db, id, state))

\* The chat ids worth passing: every id assigned so far, deleted or not, and the next.
ChatIDsOf(d) == 1..(d.chats.seq + 1)

StoreListMessages ==
    \E cid \in ChatIDsOf(db) : Call("ListMessages", <<cid>>, ListMessages(db, cid))

StoreCreateMessage ==
    \E cid \in ChatIDsOf(db) : \E m \in MessageInputs(cid) :
        /\ StoreCreates(db) < MaxStoreCreates
        /\ Call("CreateMessage", <<m>>, CreateMessage(db, m))

StoreUpdateMessage ==
    \E cid \in IDsOf(db.chats) : \E mid \in MessageIDsOf(db, cid) :
        LET m == Message(cid, mid, "agent", NilText, TextOf("edited"), NilTool)
        IN  Call("UpdateMessage", <<m>>, UpdateMessage(db, m))

StoreDeleteMessage ==
    \E cid \in IDsOf(db.chats) : \E mid \in MessageIDsOf(db, cid) :
        Call("DeleteMessage", <<cid, mid>>, DeleteMessage(db, cid, mid))

StoreCreateNode ==
    \E t \in NodeTypes :
        /\ StoreCreates(db) < MaxStoreCreates
        /\ Call("CreateNode", <<t, AdaProps>>, CreateNode(db, t, AdaProps))

StoreDeleteNode ==
    \E id \in IDsOf(db.nodes) : Call("DeleteNode", <<id>>, DeleteNode(db, id))

StoreCreateEdge ==
    \E t \in EdgeTypes, from \in IDsOf(db.nodes), to \in IDsOf(db.nodes) :
        /\ StoreCreates(db) < MaxStoreCreates
        /\ Call("CreateEdge", <<t, from, to>>, CreateEdge(db, t, from, to))

StoreDeleteEdge ==
    \E id \in IDsOf(db.edges) : Call("DeleteEdge", <<id>>, DeleteEdge(db, id))

StoreListNodes ==
    \E t \in NodeTypes \cup {""} : Call("ListNodes", <<t>>, ListNodes(db, t))

StoreListEdges ==
    \E t \in EdgeTypes \cup {"", "likes"}, from \in IDsOf(db.nodes) \cup {0},
       to \in IDsOf(db.nodes) \cup {0} :
        Call("ListEdges", <<EdgeFilter(t, from, to)>>, ListEdges(db, EdgeFilter(t, from, to)))

NextStore ==
    \/ StoreCreateChat
    \/ StoreDeleteChat
    \/ StoreUpdateChatState
    \/ StoreListMessages
    \/ StoreCreateMessage
    \/ StoreUpdateMessage
    \/ StoreDeleteMessage
    \/ StoreCreateNode
    \/ StoreDeleteNode
    \/ StoreCreateEdge
    \/ StoreDeleteEdge
    \/ StoreListNodes
    \/ StoreListEdges

SpecStore == InitStore /\ [][NextStore]_vars

-----------------------------------------------------------------------------
(* Properties of the store, checked under SpecStore. *)

\* The error descriptions of UpdateChatState.
InvalidArgument(state) == "invalid state: " \o state \o " (must be 'idle' or 'running')"
NotFound(chatID) == "chat not found: " \o ToString(chatID)

\* The step is a call of UpdateChatState(id, state).
UpdateChatStateCalled(id, state) ==
    /\ ret'.op = "UpdateChatState"
    /\ ret'.args[1] = id
    /\ ret'.args[2] = state

\* C17: UpdateChatState rejects a state outside {idle, running} with InvalidArgument
\* and fails with NotFound on an absent chat, in both cases changing nothing; on
\* success the chat record changes in its State field only and nothing else changes.
C17_UpdateChatState ==
    [][\A id \in IDsOf(db.chats), state \in ChatStates :
          UpdateChatStateCalled(id, state) =>
              IF state \notin {"idle", "running"}
              THEN ret'.err = InvalidArgument(state) /\ db' = db
              ELSE IF id \notin ChatKeys
              THEN ret'.err = NotFound(id) /\ db' = db
              ELSE /\ ret'.err = ""
                   /\ db' = [db EXCEPT !.chats.kv[id].State = state]
                   /\ db'.chats.kv[id].ID = id
                   /\ db'.chats.kv[id].Name = db.chats.kv[id].Name]_vars

\* C17 witness: a call with state "done" on an existing chat that is stored as running
\* has been rejected.
C17_Witness ==
    /\ ret.op = "UpdateChatState"
    /\ ret.args[2] = "done"
    /\ ret.args[1] \in Running
    /\ ret.err = InvalidArgument("done")

\* The step created a record with `id` in bucket `b`, which becomes `bn`: the id is the
\* one after the last the counter handed out, hence greater than every id assigned
\* before, and the counter now stands at it.
Assigned(b, bn, id) ==
    /\ id = b.seq + 1
    /\ id > b.seq
    /\ bn.seq = id
    /\ Has(bn, id)

\* C18: in every partition the counter never goes back, a chat's message partition is
\* only ever created under a chat id not assigned before, and every successful create
\* assigns the id after the counter: greater than every id assigned before, those of
\* deleted records included, and (chats, nodes, edges) than every id in the partition.
C18_IdsIncrease ==
    [][/\ \A p \in {"chats", "nodes", "edges"} : db'[p].seq >= db[p].seq
       /\ \A c \in DOMAIN db'.msgs :
            IF c \in DOMAIN db.msgs THEN db'.msgs[c].seq >= db.msgs[c].seq
            ELSE c > db.chats.seq /\ db'.msgs[c].seq = 0
       /\ (ret'.err = "" /\ ret'.op \in {"CreateChat", "CreateNode", "CreateEdge"}) =>
            LET p == CASE ret'.op = "CreateChat" -> "chats"
                       [] ret'.op = "CreateNode" -> "nodes"
                       [] OTHER -> "edges"
            IN  /\ Assigned(db[p], db'[p], ret'.val.ID)
                /\ \A k \in DOMAIN db[p].kv : ret'.val.ID > k
       /\ (ret'.err = "" /\ ret'.op = "CreateMessage") =>
            Assigned(db.msgs[ret'.val.ChatID], db'.msgs[ret'.val.ChatID], ret'.val.MessageID)]_vars

\* C18 witness: a node has been created after the node created before it was deleted.
C18_Witness ==
    /\ ret.op = "CreateNode"
    /\ SinceBase(db.nodes.seq) = 2
    /\ DOMAIN db.nodes.kv = {db.nodes.seq}

\* The step is a successful CreateMessage(m), and GetMessage on the chat and the
\* returned id then yields m with the assigned id in place of the caller's.
RoundTrip(m) ==
    LET got == GetMessage(db', m.ChatID, ret'.val.MessageID)
    IN  /\ ret'.val.MessageID = db.msgs[m.ChatID].seq + 1
        /\ got.err = ""
        /\ got.val = [m EXCEPT !.MessageID = ret'.val.MessageID]

\* The tool arguments of m hold only values as json.Unmarshal yields them: every number
\* a float64.
DecodedArgs(m) == DecodeArgs(EncodeArgs(m.ToolMsg.ToolArgs)) = m.ToolMsg.ToolArgs

\* C19 as stated: for every message m and existing chat, CreateMessage(m) followed by
\* GetMessage(m.chat_id, returned id) yields a record equal to m except for the id.
C19_Original ==
    [][(ret'.op = "CreateMessage" /\ ret'.err = "") => RoundTrip(ret'.args[1])]_vars

\* C19 amended: the same for every message m whose tool arguments hold only values as
\* JSON decoding yields them (every number a float64).
C19_RoundTrip ==
    [][(ret'.op = "CreateMessage" /\ ret'.err = "" /\ DecodedArgs(ret'.args[1]))
          => RoundTrip(ret'.args[1])]_vars

\* C19 witness: a tool message passed with a float64 argument and a message id of the
\* caller's own has been created under another, sequence-assigned id.
C19_Witness ==
    /\ ret.op = "CreateMessage"
    /\ ret.err = ""
    /\ ret.args[1].MType = "tool"
    /\ ret.args[1].MessageID = 7
    /\ ret.val.MessageID # 7
    /\ GetMessage(db, ret.val.ChatID, ret.val.MessageID).val.ToolMsg.ToolArgs.id = JNum(1)

-----------------------------------------------------------------------------
(* Direct calls of the graph repository on a store that may have been in use before:
   node and edge ids cross the boundary between one-byte and two-byte keys. *)

ListingCreateNode ==
    \E t \in NodeTypes :
        /\ SinceBase(db.nodes.seq) < MaxNodes
        /\ Call("CreateNode", <<t, AdaProps>>, CreateNode(db, t, AdaProps))

ListingCreateEdge ==
    \E t \in EdgeTypes, from \in IDsOf(db.nodes), to \in IDsOf(db.nodes) :
        /\ SinceBase(db.edges.seq) < MaxEdges
        /\ Call("CreateEdge", <<t, from, to>>, CreateEdge(db, t, from, to))

NextListing ==
    \/ ListingCreateNode
    \/ ListingCreateEdge
    \/ StoreDeleteNode
    \/ StoreDeleteEdge
    \/ StoreListNodes
    \/ StoreListEdges

SpecListing == InitStore /\ [][NextListing]_vars

\* The records of a listing come in strictly ascending id.
AscendingID(s) == \A i, j \in 1..Len(s) : i < j => s[i].ID < s[j].ID

\* C20: ListNodes(filter) and ListEdges(filter) are read-only and deterministic: the
\* same call applied again to the store the first one left returns the identical
\* sequence and leaves the store as it is, and the sequence is in ascending id.
C20_ListingsRepeatable ==
    /\ ret.op = "ListNodes" =>
          /\ ret.err = ""
          /\ ListNodes(db, ret.args[1]).db = db
          /\ ListNodes(db, ret.args[1]).err = ""
          /\ ListNodes(db, ret.args[1]).val = ret.val
          /\ AscendingID(ret.val)
    /\ ret.op = "ListEdges" =>
          /\ ret.err = ""
          /\ ListEdges(db, ret.args[1]).db = db
          /\ ListEdges(db, ret.args[1]).err = ""
          /\ ListEdges(db, ret.args[1]).val = ret.val
          /\ AscendingID(ret.val)

\* C20 witness: ListEdges has returned the edges 255 and 256, in that order, of a store
\* whose node listing holds the nodes 255 and 256, in that order.
C20_Witness ==
    /\ ret.op = "ListEdges"
    /\ Len(ret.val) = 2
    /\ ret.val[1].ID = 255
    /\ ret.val[2].ID = 256
    /\ Len(ListNodes(db, "").val) = 2
    /\ ListNodes(db, "").val[1].ID = 255
    /\ ListNodes(db, "").val[2].ID = 256

-----------------------------------------------------------------------------
(* History translation (getChatHistory). *)

\* The turns the provider is to see for one stored message: one for a user or an agent
\* message, the call and its result for a tool message.
TurnCount(m) == IF m.MType = "tool" THEN 2 ELSE 1

\* The position in the history of the first turn of the i-th message.
RECURSIVE FirstTurn(_, _)
FirstTurn(ms, i) ==
    IF i = 1 THEN 1 ELSE FirstTurn(ms, i - 1) + TurnCount(ms[i - 1])

\* hs holds, at the place of message m, a user turn, an assistant turn, or a
\* function-call turn directly followed by its function-result turn.
TranslatedAt(hs, k, m) ==
    IF m.MType = "user"
    THEN hs[k].role = "user" /\ hs[k].block = "text" /\ hs[k].text = m.UserMsg.Text
    ELSE IF m.MType = "agent"
    THEN hs[k].role = "assistant" /\ hs[k].block = "text" /\ hs[k].text = m.AgentMsg.Text
    ELSE /\ hs[k].role = "assistant"
         /\ hs[k].block = "tool_use"
         /\ hs[k].name = m.ToolMsg.ToolName
         /\ hs[k].args = EncodeArgs(m.ToolMsg.ToolArgs)
         /\ hs[k + 1].role = "user"
         /\ hs[k + 1].block = "tool_result"
         /\ hs[k + 1].toolUseID = hs[k].toolUseID
         /\ hs[k + 1].isError = (m.ToolMsg.ToolError # "")
         /\ hs[k + 1].text = IF m.ToolMsg.ToolError # "" THEN m.ToolMsg.ToolError
                                                         ELSE m.ToolMsg.ToolResult

\* The history of chat cid is its messages in order, each translated as TranslatedAt says.
HistoryTranslated(cid) ==
    LET ms == ListMessages(db, cid).val
        hs == getChatHistory(db, cid).val
    IN  /\ getChatHistory(db, cid).err = ""
        /\ Len(hs) = FirstTurn(ms, Len(ms) + 1) - 1
        /\ \A i \in 1..Len(ms) : TranslatedAt(hs, FirstTurn(ms, i), ms[i])

\* C21: the history of every chat keeps the order of its messages and holds one user
\* turn per user message, one assistant turn per agent message and, for every tool
\* message, the function-call turn directly followed by its function-result turn.
\* Stated of the store a run of the program leaves behind for the next one.
C21_HistoryTranslation ==
    ~Alive => \A cid \in DOMAIN db.msgs : HistoryTranslated(cid)

-----------------------------------------------------------------------------
(* Message ids and the order of ListMessages. *)

\* The step is a successful CreateMessage in chat c.
CreatedMessageIn(c) ==
    /\ ret'.op = "CreateMessage"
    /\ ret'.err = ""
    /\ ret'.val.ChatID = c

\* The messages of a listing other than the one with the given id.
Others(ms, id) == SelectSeq(ms, LAMBDA m : m.MessageID # id)

\* After the step ListMessages(c) ends with the message just created, behind the
\* messages it returned before, which keep their order.
ListedLast(c) ==
    LET before == ListMessages(db, c).val
        after == ListMessages(db', c).val
        id == ret'.val.MessageID
    IN  /\ after # <<>>
        /\ after[Len(after)].MessageID = id
        /\ Others(after, id) = Others(before, id)
        /\ \A i \in 1..Len(before) : before[i].MessageID <= id

\* C22: in every chat the counter of message ids starts at 0 and moves only by a
\* successful CreateMessage, which assigns the next number (1, 2, 3, ...); a failed
\* CreateMessage leaves the store as it was; and ListMessages returns the created
\* message after all those persisted before it.
C22_MessageIdsGapFree ==
    [][/\ \A c \in DOMAIN db'.msgs :
            IF c \notin DOMAIN db.msgs THEN db'.msgs[c].seq = 0
            ELSE IF CreatedMessageIn(c)
            THEN /\ ret'.val.MessageID = db.msgs[c].seq + 1
                 /\ db'.msgs[c].seq = ret'.val.MessageID
                 /\ ListedLast(c)
            ELSE db'.msgs[c].seq = db.msgs[c].seq
       /\ (ret'.op = "CreateMessage" /\ ret'.err # "") => db' = db
       /\ (ret'.op = "CreateMessage" /\ ret'.err = "") => ret'.val.ChatID \in DOMAIN db.msgs]_vars

\* C22 witness: the second message of a chat has been created under id 2 and
\* ListMessages returns the messages 1 and 2 in that order.
C22_Witness ==
    /\ ret.op = "CreateMessage"
    /\ ret.err = ""
    /\ ret.val.MessageID = 2
    /\ HasMessageBucket(db, ret.val.ChatID)
    /\ Len(ListMessages(db, ret.val.ChatID).val) = 2
    /\ ListMessages(db, ret.val.ChatID).val[1].MessageID = 1
    /\ ListMessages(db, ret.val.ChatID).val[2].MessageID = 2

-----------------------------------------------------------------------------
(* DeleteChat. *)

\* The step is DeleteChat(id).
DeleteChatCalled(id) == ret'.op = "DeleteChat" /\ ret'.args[1] = id

\* Chat c has its record and its message partition, or neither.
RecordAndPartition(d, c) == Has(d.chats, c) <=> HasMessageBucket(d, c)

\* C23: DeleteChat(id) on an existing chat succeeds and removes the chat record and
\* the message partition in one step: afterwards GetChat(id) and ListMessages(id) both
\* fail, every other chat's record and messages are as before, and in no state does a
\* chat have only one of its record and its partition.
C23_DeleteChatAtomic ==
    [][/\ \A id \in DOMAIN db.chats.kv : DeleteChatCalled(id) =>
            /\ ret'.err = ""
            /\ GetChat(db', id).err # ""
            /\ ListMessages(db', id).err # ""
            /\ \A c \in (DOMAIN db.chats.kv) \ {id} :
                  /\ Has(db'.chats, c)
                  /\ db'.chats.kv[c] = db.chats.kv[c]
            /\ \A c \in (DOMAIN db.msgs) \ {id} :
                  /\ HasMessageBucket(db', c)
                  /\ db'.msgs[c] = db.msgs[c]
            /\ DOMAIN db'.chats.kv \subseteq DOMAIN db.chats.kv
            /\ DOMAIN db'.msgs \subseteq DOMAIN db.msgs
       /\ \A c \in (DOMAIN db'.chats.kv) \cup (DOMAIN db'.msgs) : RecordAndPartition(db', c)]_vars

\* C23 witness: DeleteChat has removed a chat while another chat, which holds a
\* message, is stored.
C23_Witness ==
    /\ ret.op = "DeleteChat"
    /\ ret.err = ""
    /\ ret.args[1] < db.chats.seq
    /\ ~Has(db.chats, ret.args[1])
    /\ ~HasMessageBucket(db, ret.args[1])
    /\ \E c \in DOMAIN db.msgs : Has(db.chats, c) /\ DOMAIN db.msgs[c].kv # {}

-----------------------------------------------------------------------------
(* Startup (newClient) on the database file a run finds, and the runs after it. *)

versionKey == "version"
schemaVersion == "v1"

\* The top-level buckets first-run initialization creates.
Partitions == {"chats", "nodes", "edges"}

\* The values b.Get(versionKey) can read as a string: "" for a key that is not there.
Markers == {"", versionKey, schemaVersion}

\* A database file: the value under versionKey in the meta bucket, the top-level
\* buckets that exist, and their contents.
DBFile(meta, buckets) ==
    [meta |-> meta, buckets |-> buckets,
     chats |-> EmptyBucket, msgs |-> <<>>, nodes |-> EmptyBucket, edges |-> EmptyBucket]

newClientKeepsPartial(f) ==
    IF f.meta = ""
    THEN IF f.buckets \cap Partitions # {}
         THEN Result([f EXCEPT !.meta = versionKey], "failed to update database: bucket already exists", NoValue)
         ELSE Result([f EXCEPT !.meta = versionKey, !.buckets = f.buckets \cup Partitions], "", f.buckets \cup Partitions)
    ELSE IF f.meta = versionKey
    THEN Result(f, "", f.buckets)
    ELSE Result(f, "failed to update database: unknown version " \o f.meta, NoValue)

\* newClient: the Update transaction of the version check. tx.CreateBucket fails on a
\* bucket that exists, and an error rolls the whole transaction back. The value is the
\* client, given by the buckets it can reach.
newClient(f) ==
    IF f.meta = ""
    THEN IF f.buckets \cap Partitions # {}
         THEN Result(f, "failed to update database: bucket already exists", NoValue)
         ELSE Result([f EXCEPT !.meta = versionKey, !.buckets = f.buckets \cup Partitions], "", f.buckets \cup Partitions)
    ELSE IF f.meta = versionKey
    THEN Result(f, "", f.buckets)
    ELSE Result(f, "failed to update database: unknown version " \o f.meta, NoValue)

InitStartup ==
    /\ \E meta \in Markers, buckets \in SUBSET Partitions : db = DBFile(meta, buckets)
    /\ ret = NoCall
    /\ w = WorkerIdle
    /\ ui = [pc |-> "start"]
    /\ cmds = [update |-> 1, generate |-> 0, send |-> 0]
    /\ provider = <<>>
    /\ user = 0

\* The Action up to `return err` after newClient.
StartupNewClient ==
    /\ ui.pc = "start"
    /\ LET r == newClient(db)
       IN  /\ db' = r.db
           /\ ret' = [op |-> "newClient", args |-> <<>>, err |-> r.err, val |-> r.val]
           /\ ui' = [ui EXCEPT !.pc = IF r.err = "" THEN "loop" ELSE "failed"]
    /\ UNCHANGED <<w, cmds, provider, user>>

\* A repository call of the running program on a bucket the file lacks: tx.Bucket
\* returns nil and the call on it panics.
StartupNilBucket ==
    /\ ui.pc = "loop"
    /\ Partitions \ db.buckets # {}
    /\ ui' = [ui EXCEPT !.pc = "crashed"]
    /\ UNCHANGED <<db, ret, w, cmds, provider, user>>

\* The --init flag: client.CreateChat("test").
StartupCreateChat ==
    /\ ui.pc = "loop"
    /\ "chats" \in db.buckets
    /\ db.chats.seq < MaxCalls
    /\ Call("CreateChat", <<"test">>, CreateChat(db, "test"))

\* A round's tool call creating a node.
StartupCreateNode ==
    /\ ui.pc = "loop"
    /\ "nodes" \in db.buckets
    /\ db.nodes.seq < MaxNodes
    /\ Call("CreateNode", <<"person", AdaProps>>, CreateNode(db, "person", AdaProps))

\* The program ends and client.Close() runs; the file stays for the next run.
StartupClose ==
    /\ ui.pc = "loop"
    /\ ui' = [ui EXCEPT !.pc = "start"]
    /\ ret' = [op |-> "Close", args |-> <<>>, err |-> "", val |-> NoValue]
    /\ UNCHANGED <<db, w, cmds, provider, user>>

NextStartup ==
    \/ StartupNewClient
    \/ StartupNilBucket
    \/ StartupCreateChat
    \/ StartupCreateNode
    \/ StartupClose

SpecStartup == InitStartup /\ [][NextStartup]_vars

\* The step is a run's call of newClient.
Starting == ui.pc = "start" /\ ui'.pc # "start"

\* First-run initialization has been done on the file.
Initialized(f) ==
    /\ f.meta = versionKey
    /\ Partitions \subseteq f.buckets

\* C24: newClient on a file without marker either writes the marker and creates the
\* chat, node and edge partitions, all of them, or fails and changes nothing; on a file
\* with the recognized marker it succeeds and changes nothing; on a file with any other
\* marker it fails, returns no client and changes nothing, and the run does nothing
\* after it.
C24_StartupVersionCheck ==
    [][/\ (Starting /\ db.meta = "") =>
            \/ ret'.err = "" /\ Initialized(db') /\ ~Initialized(db)
                  /\ db' = [db EXCEPT !.meta = versionKey, !.buckets = Partitions]
            \/ ret'.err # "" /\ ret'.val = NoValue /\ db' = db /\ ui'.pc = "failed"
       /\ (Starting /\ db.meta = "" /\ db.buckets = {}) => ret'.err = ""
       /\ (Starting /\ db.meta = versionKey) => ret'.err = "" /\ db' = db /\ ui'.pc = "loop"
       /\ (Starting /\ db.meta \notin {"", versionKey}) =>
            ret'.err # "" /\ ret'.val = NoValue /\ db' = db /\ ui'.pc = "failed"
       /\ ui.pc = "failed" => (db' = db /\ ui' = ui /\ w' = w)]_vars

\* C24 witness: a run has found a file with an unrecognized marker beside existing
\* partitions and has failed at startup.
C24_Witness ==
    /\ ui.pc = "failed"
    /\ ret.op = "newClient"
    /\ ret.err # ""
    /\ db.meta = schemaVersion
    /\ db.buckets = Partitions

-----------------------------------------------------------------------------
(* The tool registry: what getTools declares against what handleToolCall does. *)

\* The names a model may issue: the declared ones and one that is not declared.
NameInputs == ToolNames \cup {"drop_graph"}

\* Arguments a model may issue: none, ids of either type, and type / endpoint / props
\* combinations, complete and incomplete.
ArgInputs ==
    {NoArgs,
     [NoArgs EXCEPT !.id = JNum(1)],
     [NoArgs EXCEPT !.id = JStr("1")],
     [NoArgs EXCEPT !.type = JStr("person")],
     [NoArgs EXCEPT !.type = JStr("person"), !.props = JObj({<<"name", JStr("Ada")>>})],
     [NoArgs EXCEPT !.props = JObj({<<"name", JStr("Ada")>>})],
     [NoArgs EXCEPT !.node_type = JStr("person")],
     [NoArgs EXCEPT !.type = JStr("knows"), !.from_id = JNum(1), !.to_id = JNum(1)],
     [NoArgs EXCEPT !.type = JStr("knows"), !.from_id = JNum(1)],
     [NoArgs EXCEPT !.type = JNum(1), !.from_id = JNum(1), !.to_id = JNum(1)]}

\* The switch of handleToolCall on a tool call the model issued.
DispatchTool ==
    \E name \in NameInputs, a \in ArgInputs :
        LET t == Dispatch(db, name, a)
        IN  /\ t.db.nodes.seq <= MaxNodes
            /\ t.db.edges.seq <= MaxEdges
            /\ db' = t.db
            /\ ret' = [op |-> "handleToolCall", args |-> <<name, a>>, err |-> t.fatal,
                       val |-> [err |-> t.err, result |-> t.result]]
            /\ UNCHANGED appVars

NextDispatch == DispatchTool

SpecDispatch == Init /\ [][NextDispatch]_vars

\* The graph repository operation of the registry's row for a tool name, on arguments
\* that hold what the row requires; an optional argument left out is the unset value.
TableCall(d, name, a) ==
    CASE name = "get_node" -> GetNode(d, a.id.n)
      [] name = "list_nodes" -> ListNodes(d, IF a.node_type.t = "string" THEN a.node_type.s ELSE "")
      [] name = "create_node" ->
           CreateNode(d, a.type.s, IF a.props.t = "object" THEN MkProps(a.props.o) ELSE NilProps)
      [] name = "delete_node" -> DeleteNode(d, a.id.n)
      [] name = "get_edge" -> GetEdge(d, a.id.n)
      [] name = "list_edges" ->
           ListEdges(d, EdgeFilter(IF a.type.t = "string" THEN a.type.s ELSE "",
                                   IF a.from_id.t = "float64" THEN a.from_id.n ELSE 0,
                                   IF a.to_id.t = "float64" THEN a.to_id.n ELSE 0))
      [] name = "create_edge" -> CreateEdge(d, a.type.s, a.from_id.n, a.to_id.n)
      [] name = "delete_edge" -> DeleteEdge(d, a.id.n)

\* An argument the schema of the tool declares required is missing or of another type.
LacksRequired(name, a) == \E r \in RequiredArgs(name) : a[r[1]].t # r[2]

\* C25: the registry declares exactly the eight tools of the table; a tool name is
\* handled by the dispatcher exactly if it is declared; a declared tool is refused for
\* its arguments exactly if an argument its schema declares required is missing or of
\* the wrong type; and otherwise the call has the effect and the error of the graph
\* repository operation of its table row.
C25_RegistryMatchesDispatcher ==
    [][ret'.op = "handleToolCall" =>
         LET name == ret'.args[1]
             a == ret'.args[2]
         IN  /\ Cardinality(ToolNames) = 8
             /\ ToolNames = {"get_node", "list_nodes", "create_node", "delete_node",
                             "get_edge", "list_edges", "create_edge", "delete_edge"}
             /\ (name \in ToolNames) <=> (ret'.err # "unknown tool: " \o name)
             /\ name \in ToolNames =>
                   /\ (ret'.err # "") <=> LacksRequired(name, a)
                   /\ ret'.err = "" =>
                         /\ db' = TableCall(db, name, a).db
                         /\ ret'.val.err = TableCall(db, name, a).err
                         /\ (ret'.val.result # "") <=> (ret'.val.err = "")
             /\ ret'.err # "" => db' = db]_vars

\* C25 witness: create_edge, issued with all three required arguments, has created an
\* edge between stored nodes.
C25_Witness ==
    /\ ret.op = "handleToolCall"
    /\ ret.args[1] = "create_edge"
    /\ ret.err = ""
    /\ ret.val.err = ""
    /\ db.edges.seq > 0
    /\ Has(db.edges, db.edges.seq)

-----------------------------------------------------------------------------
(* Failing writes. *)

\* The repository operations that open an Update transaction.
WriteOps ==
    {"CreateChat", "DeleteChat", "UpdateChatState", "CreateMessage", "UpdateMessage",
     "DeleteMessage", "CreateNode", "DeleteNode", "CreateEdge", "DeleteEdge"}

\* C26: a repository write operation that returns an error leaves every record and
\* every sequence counter of the store exactly as before the call.
C26_FailedWriteChangesNothing ==
    [][(ret'.op \in WriteOps /\ ret'.err # "") => db' = db]_vars

\* C26 witness: CreateEdge from a stored node to an id that has no node has failed in
\* a store whose edge counter stands at 254.
C26_Witness ==
    /\ ret.op = "CreateEdge"
    /\ ret.err # ""
    /\ Has(db.nodes, ret.args[2])
    /\ ~Has(db.nodes, ret.args[3])
    /\ db.edges.seq = 254

-----------------------------------------------------------------------------
(* The loop and the worker waiting for each other. *)

\* model.Update is inside `m.a.gc <- GenerateRequest{...}`: the loop receives no message.
LoopInSubmit == ui.pc = "gc_send"

\* The worker is inside p.Send of an UpdateChatMsg or of the GenerateResponse: it is not
\* in its select.
WorkerInNotify == w.pc \in {"onupdate", "send_resp"}

\* C27: in no reachable state is the event loop blocked in its send of a
\* GenerateRequest on agent.gc while the worker is blocked delivering a progress or a
\* completion notification to that loop.
C27_NoMutualWait ==
    ~(LoopInSubmit /\ WorkerInNotify)

-----------------------------------------------------------------------------
(* Completion of tool messages. *)

\* The stored tool messages that are not marked done and hold neither result nor error.
PendingTools ==
    {i \in 1..Len(Messages) :
        /\ Messages[i].MType = "tool"
        /\ ~Messages[i].ToolMsg.ToolDone
        /\ Messages[i].ToolMsg.ToolResult = ""
        /\ Messages[i].ToolMsg.ToolError = ""}

\* The worker is outside agent.generate: no exchange is under way.
RoundEnded == w.pc \in {"set_idle", "send_resp", "select"}

\* C28: once the round that created it has ended, every stored tool message has
\* done=true and a tool_result or a tool_error, whatever tool and arguments the model
\* issued.
C28_ToolMessagesCompleted ==
    RoundEnded => PendingTools = {}

-----------------------------------------------------------------------------
(* Classification of a provider response. *)

MessageKeys == DOMAIN db.msgs[chatId].kv

\* The step is the worker's creation of the message for the completed response.
Classifying == w.pc = "create" /\ w'.pc # "create"

\* The step is the loop's creation of the user message.
StoringUserMessage == ui.pc = "send_create" /\ ui'.pc # "send_create"

\* The message the step added to the chat.
NewMessage == ListMessages(db', chatId).val[Len(ListMessages(db', chatId).val)]

\* C29: the step that classifies a completed provider response adds exactly one
\* message to the chat: for a function-call directive a tool message with done=false,
\* the directive's name and arguments and no result or error, which is dispatched
\* next; otherwise an agent message with the response's text, after which nothing is
\* dispatched. No other step of the worker adds a message, and the graph changes
\* only in the dispatch of a tool message.
C29_OneMessagePerResponse ==
    [][/\ Classifying =>
            /\ MessageKeys \subseteq DOMAIN db'.msgs[chatId].kv
            /\ Cardinality(DOMAIN db'.msgs[chatId].kv) = Cardinality(MessageKeys) + 1
            /\ NewMessage.MessageID \notin MessageKeys
            /\ NewMessage = w'.m
            /\ IF w.resp.kind = "tool"
               THEN /\ NewMessage.MType = "tool"
                    /\ ~NewMessage.ToolMsg.ToolDone
                    /\ NewMessage.ToolMsg.ToolName = w.resp.name
                    /\ NewMessage.ToolMsg.ToolArgs = DecodeArgs(w.resp.args)
                    /\ NewMessage.ToolMsg.ToolResult = ""
                    /\ NewMessage.ToolMsg.ToolError = ""
                    /\ w'.pc = "tool"
               ELSE /\ NewMessage.MType = "agent"
                    /\ NewMessage.AgentMsg.Text = w.resp.text
                    /\ w'.pc = "onupdate"
       /\ DOMAIN db'.msgs[chatId].kv # MessageKeys => (Classifying \/ StoringUserMessage)
       /\ (db'.nodes # db.nodes \/ db'.edges # db.edges) => (w.pc = "tool" /\ w.m.MType = "tool")]_vars

\* C29 witness: in one round a tool call was stored and dispatched, and the text
\* response of the next round has just been stored as an agent message.
C29_Witness ==
    /\ w.pc = "onupdate"
    /\ w.m.MType = "agent"
    /\ Len(provider) = 2
    /\ provider[1].kind = "tool"
    /\ provider[2].kind = "text"
    /\ Len(Messages) = 3
    /\ Messages[2].MType = "tool"
    /\ Messages[3].MType = "agent"

-----------------------------------------------------------------------------
(* The completion notification of a round. *)

\* The worker has taken a GenerateRequest off agent.gc.
Dequeued == w.pc = "set_running"

\* The loop has received the GenerateResponse of the request and the worker is back in
\* its select.
CompletionDelivered == w.pc = "select"

\* The program was ended before the notification (ctrl+c, or a panic in model.Update),
\* or the provider is asked for more answers than it gives here.
RunEnded ==
    \/ Cancelled
    \/ ~Alive
    \/ w.pc = "await" /\ Len(provider) >= MaxCalls

\* C30: every generation request the worker dequeues leads to the delivery of its
\* completion notification to the event loop, unless the program is ended first.
C30_CompletionDelivered ==
    Dequeued ~> (CompletionDelivered \/ RunEnded)

-----------------------------------------------------------------------------
(* A message entered while a round is under way. *)

\* The person presses enter once more than Spec lets them.
UserEnterAgain ==
    /\ Alive
    /\ ~Cancelled
    /\ user = MaxUserMsgs
    /\ user' = user + 1
    /\ cmds' = [cmds EXCEPT !.send = @ + 1]
    /\ UNCHANGED <<db, ret, w, ui, provider>>

NextBusy ==
    \/ Next
    \/ UserEnterAgain

SpecBusy == Init /\ [][NextBusy]_vars

\* The worker has taken a request off agent.gc and has not yet handed its
\* GenerateResponse to p.Send's receiver.
RoundUnderWay == w.pc \in RoundPcs \cup {"set_running", "send_resp"}

\* C31: the handler of SendMessageMsg creates no message while a generation round of
\* the chat is under way, the window before the worker has written state running
\* included.
C31_NoUserMessageDuringRound ==
    [][(ui.pc = "send_create" /\ ui'.pc # "send_create"
          /\ DOMAIN db'.msgs[chatId].kv # DOMAIN db.msgs[chatId].kv) => ~RoundUnderWay]_vars

-----------------------------------------------------------------------------
(* One dispatch per tool message. *)

\* The step runs the switch of handleToolCall on the worker's message.
Dispatching == w.pc = "tool" /\ w'.pc # "tool"

\* The stored record of a message is a tool call nobody has handled.
Unhandled(m) ==
    /\ m.MType = "tool"
    /\ ~m.ToolMsg.ToolDone
    /\ m.ToolMsg.ToolResult = ""
    /\ m.ToolMsg.ToolError = ""

\* C32: the graph changes only in the dispatch of a tool message; a dispatch handles
\* the message the exchange has just created, whose stored record is still unhandled,
\* and makes at most one node and one edge id be assigned; and the worker comes to a
\* dispatch only from the creation of a message that was not stored before, so no
\* tool message is dispatched twice.
C32_DispatchedOnce ==
    [][/\ (db'.nodes # db.nodes \/ db'.edges # db.edges) => Dispatching
       /\ Dispatching =>
            /\ Unhandled(GetMessage(db, w.req, w.m.MessageID).val)
            /\ db'.nodes.seq <= db.nodes.seq + 1
            /\ db'.edges.seq <= db.edges.seq + 1
            /\ db'.msgs = db.msgs
       /\ (w'.pc = "tool" /\ w.pc # "tool") =>
            /\ w.pc = "create"
            /\ w'.m.MessageID \notin DOMAIN db.msgs[w.req].kv
            /\ Unhandled(w'.m)]_vars

\* C32 witness: two rounds have each stored and dispatched a create_node call, and the
\* graph holds two nodes.
C32_Witness ==
    /\ w.pc = "onupdate"
    /\ Len(provider) = 2
    /\ provider[1].name = "create_node"
    /\ provider[2].name = "create_node"
    /\ DOMAIN db.nodes.kv = {1, 2}
    /\ db.nodes.seq = 2
    /\ Cardinality({i \in 1..Len(Messages) : Messages[i].MType = "tool"}) = 2

-----------------------------------------------------------------------------
(* UpdateMessage. *)

\* C33: UpdateMessage never changes the set of message ids of a chat: called with an
\* id that has no record it creates none, and called on an existing id it replaces
\* that record and leaves every other message as it was.
C33_UpdateMessageOverwritesOnly ==
    [][ret'.op = "UpdateMessage" =>
         /\ DOMAIN db'.msgs = DOMAIN db.msgs
         /\ \A c \in DOMAIN db.msgs :
               /\ DOMAIN db'.msgs[c].kv = DOMAIN db.msgs[c].kv
               /\ \A k \in DOMAIN db.msgs[c].kv :
                     (c # ret'.args[1].ChatID \/ k # ret'.args[1].MessageID) =>
                         db'.msgs[c].kv[k] = db.msgs[c].kv[k]]_vars

-----------------------------------------------------------------------------
(* The filter of ListEdges. *)

StoredEdges == {db.edges.kv[k] : k \in DOMAIN db.edges.kv}

\* The edge agrees with every field of the filter that is set.
Selected(f, e) ==
    /\ f.Type = "" \/ e.Type = f.Type
    /\ f.FromID = 0 \/ e.FromID = f.FromID
    /\ f.ToID = 0 \/ e.ToID = f.ToID

\* C34: ListEdges(filter) succeeds and returns, each once, exactly the stored edges
\* that agree with every filter field that is set; an empty type and a zero id are
\* ignored, so the filter with no field set returns every stored edge.
C34_ListEdgesFilter ==
    ret.op = "ListEdges" =>
        LET f == ret.args[1]
            got == {ret.val[i] : i \in 1..Len(ret.val)}
        IN  /\ ret.err = ""
            /\ got = {e \in StoredEdges : Selected(f, e)}
            /\ Len(ret.val) = Cardinality(got)
            /\ (f.Type = "" /\ f.FromID = 0 /\ f.ToID = 0) => got = StoredEdges

\* C34 witness: of two stored edges that leave the same node, ListEdges with from_id
\* and to_id both set has returned the one that also ends where the filter says.
C34_Witness ==
    /\ ret.op = "ListEdges"
    /\ ret.args[1].FromID # 0
    /\ ret.args[1].ToID # 0
    /\ Len(ret.val) = 1
    /\ Cardinality({e \in StoredEdges : e.FromID = ret.args[1].FromID}) = 2

-----------------------------------------------------------------------------
(* What CreateChat leaves in the store. *)

\* C35: CreateChat(name) succeeds with a record whose id no chat had before, whose name
\* is the given one and whose state is idle, stores that record, and leaves the chat's
\* message partition in place in the same step: ListMessages of the new id then
\* succeeds with the empty sequence and a CreateMessage in it gets message id 1.
\* ListMessages and CreateMessage on an id that has no chat (never created, or
\* deleted) fail and change nothing.
C35_CreateChat ==
    [][/\ ret'.op = "CreateChat" =>
            /\ ret'.err = ""
            /\ ret'.val.ID > db.chats.seq
            /\ ret'.val.ID \notin DOMAIN db.chats.kv
            /\ ret'.val.Name = ret'.args[1]
            /\ ret'.val.State = "idle"
            /\ Has(db'.chats, ret'.val.ID)
            /\ db'.chats.kv[ret'.val.ID] = ret'.val
            /\ ListMessages(db', ret'.val.ID).err = ""
            /\ ListMessages(db', ret'.val.ID).val = <<>>
            /\ \A m \in MessageInputs(ret'.val.ID) :
                  /\ CreateMessage(db', m).err = ""
                  /\ CreateMessage(db', m).val.MessageID = 1
       /\ (ret'.op = "ListMessages" /\ ~Has(db.chats, ret'.args[1])) =>
            ret'.err # "" /\ db' = db
       /\ (ret'.op = "ListMessages" /\ Has(db.chats, ret'.args[1])) => ret'.err = ""
       /\ (ret'.op = "CreateMessage" /\ ~Has(db.chats, ret'.args[1].ChatID)) =>
            ret'.err # "" /\ db' = db
       /\ (ret'.op = "CreateMessage" /\ Has(db.chats, ret'.args[1].ChatID)
              /\ db.msgs[ret'.args[1].ChatID].seq = 0) =>
            ret'.err = "" /\ ret'.val.MessageID = 1]_vars

\* C35 witness: the first CreateMessage in a chat that CreateChat made during the run
\* has returned message id 1.
C35_Witness ==
    /\ ret.op = "CreateMessage"
    /\ ret.err = ""
    /\ ret.val.ChatID = 2
    /\ ret.val.MessageID = 1
    /\ db.chats.seq = 2

\* C35 witness of the failing side: ListMessages on the id of a deleted chat failed.
C35_DeletedWitness ==
    /\ ret.op = "ListMessages"
    /\ ret.err # ""
    /\ ret.args[1] <= db.chats.seq

-----------------------------------------------------------------------------
(* Reading back what CreateNode stored. *)

\* The properties hold only values as json.Unmarshal yields them.
DecodedProps(p) == DecodeProps(EncodeProps(p)) = p

\* GetNode of the id CreateNode returned yields the returned record.
ReadsBack == GetNode(db', ret'.val.ID).err = "" /\ GetNode(db', ret'.val.ID).val = ret'.val

\* Every stored node reads the same after the step, unless the step is its DeleteNode.
NodesKept ==
    \A id \in DOMAIN db.nodes.kv :
        IF ret'.op = "DeleteNode" /\ ret'.args[1] = id
        THEN ~Has(db'.nodes, id)
        ELSE Has(db'.nodes, id) /\ GetNode(db', id).val = GetNode(db, id).val

\* GetNode and GetEdge return the stored record of an id that has one, and otherwise
\* the not-found error and no record.
GetAnswers ==
    /\ ret'.op = "GetNode" =>
          IF Has(db.nodes, ret'.args[1])
          THEN ret'.err = "" /\ ret'.val.ID = ret'.args[1]
          ELSE /\ ret'.err = "failed to get node: node with ID " \o ToString(ret'.args[1]) \o " not found"
               /\ ret'.val = NoValue
    /\ ret'.op = "GetEdge" =>
          IF Has(db.edges, ret'.args[1])
          THEN ret'.err = "" /\ ret'.val.ID = ret'.args[1]
          ELSE /\ ret'.err = "failed to get edge: edge with ID " \o ToString(ret'.args[1]) \o " not found"
               /\ ret'.val = NoValue
    /\ ret'.op \in {"GetNode", "GetEdge"} => db' = db

\* C36 as stated: CreateNode(type, properties) returns a record with a new id such that
\* GetNode of that id returns an equal record, for all properties; the record reads the
\* same until DeleteNode removes it; GetNode and GetEdge answer not found, with no
\* record, for ids without a record.
C36_Original ==
    [][/\ (ret'.op = "CreateNode" /\ ret'.err = "") =>
             ret'.val.ID \notin DOMAIN db.nodes.kv /\ ret'.val.ID > db.nodes.seq /\ ReadsBack
       /\ NodesKept
       /\ GetAnswers]_vars

\* C36 amended: the same, with the equality of the record read back claimed only for
\* properties that hold values as JSON decoding yields them (every number a float64).
C36_CreateNodeReadsBack ==
    [][/\ (ret'.op = "CreateNode" /\ ret'.err = "") =>
             /\ ret'.val.ID \notin DOMAIN db.nodes.kv
             /\ ret'.val.ID > db.nodes.seq
             /\ ret'.val.Type = ret'.args[1]
             /\ ret'.val.Props = ret'.args[2]
             /\ DecodedProps(ret'.args[2]) => ReadsBack
       /\ NodesKept
       /\ GetAnswers]_vars

\* C36 witness: GetNode has returned the record of the second node, created with a
\* float64 property, after the first node was deleted.
C36_Witness ==
    /\ ret.op = "GetNode"
    /\ ret.err = ""
    /\ ret.args[1] = 2
    /\ ret.val = GraphNode(2, "person", MkProps({<<"age", JNum(36)>>}))
    /\ ~Has(db.nodes, 1)
    /\ GetNode(db, 1).err # ""

-----------------------------------------------------------------------------
(* What changes a chat record. *)

\* The worker is at one of its two UpdateChatState calls for chat id.
WorkerSetsState(id) == w.pc \in {"set_running", "set_idle"} /\ w.req = id

\* C37: a stored chat record is removed only by a DeleteChat call for its id, and is
\* changed only in its state, and only by an UpdateChatState call for its id (in the
\* program, one of the worker's two calls around a round); every other step, message
\* operations, graph operations and tool dispatch among them, leaves every chat record
\* (id, name, state) as it was.
C37_ChatRecordFrame ==
    [][\A id \in DOMAIN db.chats.kv :
          IF id \notin DOMAIN db'.chats.kv
          THEN ret'.op = "DeleteChat" /\ ret'.args[1] = id /\ ret'.err = ""
          ELSE \/ db'.chats.kv[id] = db.chats.kv[id]
               \/ /\ db'.chats.kv[id].ID = id
                  /\ db'.chats.kv[id].Name = db.chats.kv[id].Name
                  /\ \/ WorkerSetsState(id)
                     \/ /\ ret'.op = "UpdateChatState"
                        /\ ret'.args[1] = id
                        /\ ret'.args[2] = db'.chats.kv[id].State]_vars

\* C37 witness: DeleteMessage has removed a message of a chat whose state was set to
\* running, and the chat record is stored as it was.
C37_Witness ==
    /\ ret.op = "DeleteMessage"
    /\ ret.err = ""
    /\ Has(db.chats, ret.args[1])
    /\ db.chats.kv[ret.args[1]] = ChatInfo(ret.args[1], "test", "running")
    /\ db.msgs[ret.args[1]].seq = 1
    /\ DOMAIN db.msgs[ret.args[1]].kv = {}

\* C37 witness in the program: a tool was dispatched and changed the graph while the
\* chat record stayed in state running.
C37_DispatchWitness ==
    /\ w.pc = "onupdate"
    /\ DOMAIN db.nodes.kv # {}
    /\ Has(db.chats, chatId)
    /\ db.chats.kv[chatId].State = "running"

-----------------------------------------------------------------------------
(* The store and the provider call. Every repository method runs its transaction
   inside the method (db.View / db.Update return before the method does), so a
   transaction is open only within the step of the repository call. *)

\* The worker moves from pc a to another pc.
Leaves(a) == w.pc = a /\ w'.pc # a

\* The worker enters pc a.
Enters(a) == w.pc # a /\ w'.pc = a

\* C38: within a round no store transaction of the worker spans the provider call. The
\* request is issued by the step that read the history, which leaves the store as it
\* was; the step in which the response is received touches no store data; the
\* message-creating step follows the receipt of a response, the tool dispatch follows
\* the message's creation and its update follows the dispatch; and the worker changes
\* the store only in its chat-state, message-creating, dispatch and update steps.
C38_NoTransactionAcrossProviderCall ==
    [][/\ Enters("await") => (w.pc = "history" /\ db' = db)
       /\ Leaves("await") => db' = db
       /\ Enters("create") => (w.pc = "await" /\ Len(provider') = Len(provider) + 1)
       /\ Enters("tool") => w.pc = "create"
       /\ Enters("tool_update") => w.pc = "tool"
       /\ Enters("set_idle") => w.pc \in {"history", "await", "create", "onupdate"}
       /\ (w'.pc # w.pc /\ db' # db) =>
             w.pc \in {"set_running", "create", "tool", "tool_update", "set_idle"}]_vars

\* C38 witness: the second provider call of a run is in flight after the first one's
\* tool call was stored, dispatched and updated.
C38_Witness ==
    /\ w.pc = "await"
    /\ Len(provider) = 1
    /\ provider[1].kind = "tool"
    /\ DOMAIN db.nodes.kv # {}
    /\ \E k \in DOMAIN db.msgs[chatId].kv : db.msgs[chatId].kv[k].ToolMsg.ToolDone

-----------------------------------------------------------------------------
(* generate over a provider that answers in increments (the ollama agent): *)
(* a.ol.Chat invokes the callback once per increment of the response.      *)

MaxIncrements == 4

\* ollama.ChatResponse: the content, the first tool call (name "" for none), Done.
ChatResponse(content, name, args, done) ==
    [content |-> content, name |-> name, args |-> args, done |-> done]

Increments ==
    {ChatResponse("he", "", NoArgs, FALSE),
     ChatResponse("llo", "", NoArgs, TRUE),
     ChatResponse("", "create_node", PersonArgs, FALSE),
     ChatResponse("", "create_node", PersonArgs, TRUE),
     ChatResponse("", "", NoArgs, TRUE)}

\* The message the callback builds from an increment when it creates one.
FromIncrement(cid, resp) ==
    IF resp.name # ""
    THEN Message(cid, 0, "tool", NilText, TextOf(resp.content),
                 ToolOf(resp.done, resp.name, DecodeArgs(resp.args), "", ""))
    ELSE Message(cid, 0, "agent", NilText, TextOf(resp.content), NilTool)

\* The callback on one increment, m being the message of the increments before it
\* (NilMessage for nil): an agent message is extended and updated; otherwise, a tool
\* message included, a message is built from the increment and created.
OnIncrement(d, cid, m, resp) ==
    IF m # NilMessage /\ m.MType = "agent"
    THEN LET n == [m EXCEPT !.AgentMsg.Text = @ \o resp.content]
             r == UpdateMessage(d, n)
         IN  [db |-> r.db, m |-> n, err |-> r.err]
    ELSE LET r == CreateMessage(d, FromIncrement(cid, resp))
         IN  IF r.err # ""
             THEN [db |-> d, m |-> FromIncrement(cid, resp),
                   err |-> "failed to create message: " \o r.err]
             ELSE [db |-> r.db, m |-> r.val, err |-> ""]

\* The chat holds the user's message and generate has issued its request.
InitStream ==
    /\ db = CreateMessage(CreateChat(NewClientDB, "test").db,
                          Message(chatId, 0, "user", TextOf("hello"), NilText, NilTool)).db
    /\ ret = NoCall
    /\ w = [WorkerIdle EXCEPT !.pc = "chat", !.req = chatId]
    /\ ui = [pc |-> "loop"]
    /\ cmds = [update |-> 0, generate |-> 0, send |-> 0]
    /\ provider = <<>>
    /\ user = 1

StreamOpen == IF provider = <<>> THEN TRUE ELSE ~provider[Len(provider)].done

\* One increment arrives: the callback runs, and its deferred onupdate after it.
StreamIncrement ==
    /\ w.pc = "chat"
    /\ StreamOpen
    /\ Len(provider) < MaxIncrements
    /\ \E resp \in Increments :
        LET o == OnIncrement(db, w.req, w.m, resp)
        IN  /\ provider' = Append(provider, resp)
            /\ db' = o.db
            /\ w' = [w EXCEPT !.m = o.m,
                              !.pc = IF o.err # "" THEN "returned" ELSE "chat",
                              !.err = IF o.err # "" THEN "failed to generate response" ELSE ""]
    /\ cmds' = [cmds EXCEPT !.update = @ + 1]
    /\ UNCHANGED <<ret, ui, user>>

\* a.ol.Chat returns after the increment flagged Done.
StreamReturn ==
    /\ w.pc = "chat"
    /\ ~StreamOpen
    /\ w' = [w EXCEPT !.pc = IF w.m.MType = "tool" /\ w.m.ToolMsg.ToolDone
                             THEN "tool" ELSE "returned"]
    /\ UNCHANGED <<db, ret, ui, cmds, provider, user>>

\* handleToolCall on the message the callback left.
StreamHandleTool ==
    /\ w.pc = "tool"
    /\ LET t == Dispatch(db, w.m.ToolMsg.ToolName, w.m.ToolMsg.ToolArgs)
           m == ToolOutcome(w.m, t)
           r == UpdateMessage(t.db, m)
       IN  IF t.fatal # ""
           THEN /\ db' = t.db
                /\ w' = [w EXCEPT !.pc = "returned", !.m = m,
                                  !.err = "failed to handle tool call: " \o t.fatal]
           ELSE /\ db' = r.db
                /\ w' = [w EXCEPT !.pc = "returned", !.m = m,
                                  !.err = IF r.err # "" THEN "failed to handle tool call: " \o r.err
                                          ELSE ""]
    /\ UNCHANGED <<ret, ui, cmds, provider, user>>

NextStream ==
    \/ StreamIncrement
    \/ StreamReturn
    \/ StreamHandleTool

SpecStream == InitStream /\ [][NextStream]_vars

\* The message records the response has created so far.
CreatedByResponse == db.msgs[chatId].seq - 1

RECURSIVE Contents(_)
Contents(incs) == IF incs = <<>> THEN "" ELSE incs[1].content \o Contents(Tail(incs))

C39_AgentReplyAccumulates ==
    /\ cmds.update = Len(provider)
    /\ (provider # <<>> /\ provider[1].name = "") =>
          /\ CreatedByResponse = 1
          /\ GetMessage(db, chatId, 2).val.AgentMsg.Text = Contents(provider)

\* C39 witness of the accumulating side: two increments of text are one agent record.
C39_AgentWitness ==
    /\ Len(provider) = 2
    /\ CreatedByResponse = 1
    /\ GetMessage(db, chatId, 2).val.AgentMsg.Text = "hello"

====
